---- MODULE Spec2Model ----
(***************************************************************************)
(* Annotation geometry and pointer interaction of the PDF stamping         *)
(* application: PDFHandler (core/pdf_handler.py) and the viewport of       *)
(* ui/pdf_view.py (AnnotationManager, ViewportState, PDFViewport, PDFView).*)
(*                                                                         *)
(* Numbers.  The program computes with Python floats.  Every value of the  *)
(* model is a binary fraction with at most four fractional bits, held as   *)
(* the integer value * Unit.  The inputs (pixel positions, zoom levels     *)
(* 1/2, 1, 2, image sizes 100 and 200) keep every +, -, * and / of the     *)
(* program exact on such values (GridExact below), so the integers of the  *)
(* model are the floats of the program bit for bit.                        *)
(*                                                                         *)
(* Objects.  Annotation objects are shared by reference between            *)
(* PDFHandler.annotations, AnnotationManager.annotations, the undo stack   *)
(* and ViewportState.  heap[i] is the i-th Annotation object created; the  *)
(* lists and the state hold object ids, 0 standing for None.               *)
(***************************************************************************)
EXTENDS Integers, Sequences, FiniteSets, TLC

\* ------------------------------------------------------------- numbers

Unit == 16

Fx(n) == n * Unit

Mul(a, b) == (a * b) \div Unit

Div(a, b) == (a * Unit) \div b

Max(a, b) == IF a >= b THEN a ELSE b

\* ------------------------------------------------------------- constants

HANDLE_SIZE == 8

MIN_SIZE == 20

target_width == 100

MAX_CACHE_SIZE == 100

DEFAULT_ZOOM == Fx(1)

\* 0.1 <= z <= 5.0 on a value held as z * Unit
ZoomInRange(z) == 10 * z >= Unit /\ z <= 5 * Unit

\* ------------------------------------------------------------- bounds and inputs

\* number of Annotation objects created in one run
MaxAnnotations == 2

\* number of events (operations) in one run
MaxSteps == 6

\* a candidate for the bound on the length of the undo and redo stacks
StackBound == 3

\* largest max_size an ImageCache is constructed with
MaxCacheSize == 2

\* pages of the documents opened: len(self.document) = 2
Pages == {0, 1}

\* the files offered to open_document; fitz.open raises on the last one
Documents == {"two-page.pdf", "one-page.pdf"}
Paths == Documents \cup {"unreadable.pdf"}

\* zoom levels requested of set_zoom: 1/2, 1, 2 and the out-of-range 1/16 and 8
ZoomInputs == {Unit \div 16, Unit \div 2, Unit, 2 * Unit, 8 * Unit}

\* viewport positions of pointer and drop events, in pixels
Points ==
    { <<Fx(10), Fx(10)>>, <<Fx(110), Fx(10)>>, <<Fx(10), Fx(60)>>,
      <<Fx(110), Fx(60)>>, <<Fx(60), Fx(35)>>, <<Fx(160), Fx(60)>>,
      <<Fx(0), Fx(0)>> }

DropPoints == { <<Fx(10), Fx(10)>> }

\* viewport positions of context-menu events
MenuPoints == { <<Fx(60), Fx(35)>>, <<Fx(160), Fx(60)>> }

\* (image_data, width, height, color) arguments of get_scaled_image
CacheKeys ==
    << << "wide", 100, 50, "#000000" >>, << "wide", 100, 50, "#ff0000" >>,
       << "wide", 200, 100, "#000000" >>, << "tall", 100, 200, "#000000" >> >>

\* channel values of the pixels tinted: black, a mid value, both sides of the
\* white threshold and full; alpha transparent, half and opaque
Channels == {0, 100, 240, 241, 255}
Alphas == {0, 128, 255}
Pixels == { << R, G, B, A >> : R \in Channels, G \in Channels, B \in Channels, A \in Alphas }

\* color arguments: absent, the default black, red in both cases, a blue, and
\* one that is not hexadecimal
Colors ==
    { << >>,
      << "#", "0", "0", "0", "0", "0", "0" >>,
      << "#", "F", "F", "0", "0", "0", "0" >>,
      << "#", "f", "f", "0", "0", "0", "0" >>,
      << "#", "0", "0", "8", "0", "f", "f" >>,
      << "#", "g", "g", "0", "0", "0", "0" >> }

\* indexes passed to PDFHandler.remove_annotation: -1, 0, 1, 2
RemoveIds == (-1)..MaxAnnotations

\* the stamps of the gallery: the image (bytes, pixel size), the name and the
\* metadata StampManager.import_stamp stored for it; color is what
\* metadata.get('color', '#000000') gives, the gallery's metadata having no colour
Stamps ==
    { [image_data |-> "wide", name |-> "wide", image_width |-> 200, image_height |-> 100,
       original_width |-> 200, original_height |-> 100,
       aspect_ratio |-> Div(Fx(200), Fx(100)), color |-> "#000000"],
      [image_data |-> "tall", name |-> "tall", image_width |-> 100, image_height |-> 200,
       original_width |-> 100, original_height |-> 200,
       aspect_ratio |-> Div(Fx(100), Fx(200)), color |-> "#000000"] }

\* a payload whose metadata carries a tint colour
TintedStamps ==
    { [image_data |-> "wide", name |-> "wide", image_width |-> 200, image_height |-> 100,
       original_width |-> 200, original_height |-> 100,
       aspect_ratio |-> Div(Fx(200), Fx(100)), color |-> "#ff0000"] }

\* the bytes a drag can carry as application/x-stamp or application/x-signature:
\* none, a 200x100 PNG file, a 100x200 PNG file, and bytes that are no image
ImageBytes == { "", "wide", "tall", "no-image" }

\* QImage.fromData(data): isNull(), width() and height() of the image it gives
fromData(data) ==
    IF data = "wide" THEN [isNull |-> FALSE, width |-> 200, height |-> 100]
    ELSE IF data = "tall" THEN [isNull |-> FALSE, width |-> 100, height |-> 200]
    ELSE [isNull |-> TRUE, width |-> 0, height |-> 0]

\* the metadata blobs a drag can carry: the one the gallery and the signature pad
\* write for the 200x100 image, one that gives the image no height, one that gives
\* it no width, a JSON text that is no object, a text that is no JSON, and none
GalleryMetadata == "{\"original_width\": 200, \"original_height\": 100, \"aspect_ratio\": 2.0}"

FlatMetadata == "{\"original_width\": 200, \"original_height\": 0, \"aspect_ratio\": 2.0}"

NarrowMetadata == "{\"original_width\": 0, \"original_height\": 100}"

MetadataBlobs == { "", "{", "[]", GalleryMetadata, FlatMetadata, NarrowMetadata }

\* json.loads(text) raises JSONDecodeError
JSONDecodeError(text) == text \notin { "[]", GalleryMetadata, FlatMetadata, NarrowMetadata }

\* json.loads(text) is a dict, so that metadata.get exists
IsDict(text) == text \in { GalleryMetadata, FlatMetadata, NarrowMetadata }

\* json.loads(text), for the texts that hold an object
json_loads(text) ==
    IF text = GalleryMetadata
    THEN [original_width |-> 200, original_height |-> 100,
          aspect_ratio |-> Div(Fx(200), Fx(100))]
    ELSE IF text = FlatMetadata
    THEN [original_width |-> 200, original_height |-> 0,
          aspect_ratio |-> Div(Fx(200), Fx(100))]
    ELSE [original_width |-> 0, original_height |-> 100]

\* dict.get(key, default)
get(d, key, default) == IF key \in DOMAIN d THEN d[key] ELSE default

\* what a drag delivers: the image bytes, the metadata blob and the text
Payloads ==
    { [data |-> d, metadata_data |-> m, text |-> "stamp"] :
          d \in ImageBytes, m \in MetadataBlobs }

\* ------------------------------------------------------------- state

VARIABLES
    document,            \* PDFHandler.document: "None" or the file opened
    current_page,        \* PDFHandler.current_page
    zoom_level,          \* PDFHandler.zoom_level
    annotations,         \* PDFHandler.annotations (object ids)
    undo_stack,          \* PDFHandler.undo_stack
    redo_stack,          \* PDFHandler.redo_stack
    heap,                \* the Annotation objects
    view_annotations,    \* AnnotationManager.annotations (object ids)
    drag_start_pos,      \* ViewportState.drag_start_pos: <<>> or <<x, y>>
    drag_start_rect,     \* ViewportState.drag_start_rect: <<>> or <<x, y, w, h>>
    resize_handle,       \* ViewportState.resize_handle
    selected_annotation, \* ViewportState.selected_annotation (object id or 0)
    hovered_annotation,  \* ViewportState.hovered_annotation (object id or 0)
    leftDown,            \* the left button is held (event.buttons())
    _cache,              \* ImageCache._cache: the entries in insertion order
    _max_size,           \* ImageCache._max_size
    qimg,                \* QImage objects get_scaled_image has built; the n-th is n
    item,                \* get_scaled_image's tint loop: a pixel (R, G, B, A) of the image
    tint,                \* the color argument the loop runs under: <<>> or its characters
    new_data,            \* the pixel the loop appends for item, <<>> before it has run
    saved,               \* the insert_image calls behind the file the last event's
                         \* save_document wrote, <<>> where it wrote none
    drawn,               \* the painter calls the last event's paintEvent made for
                         \* the annotations, in order; <<>> where it was no paint
    stamps,              \* StampManager.stamps: stamp id -> stamp info
    categories,          \* StampManager.categories: category -> list of stamp ids
    uuids,               \* ids uuid.uuid4 has generated; the n-th is n
    returned,            \* the method the last event called, its argument (0 where it
                         \* takes none or an object) and its result
    steps                \* events delivered so far

vars ==
    << document, current_page, zoom_level, annotations, undo_stack, redo_stack,
       heap, view_annotations, drag_start_pos, drag_start_rect, resize_handle,
       selected_annotation, hovered_annotation, leftDown, _cache, _max_size, qimg, item, tint, new_data,
       saved, drawn, stamps, categories, uuids, returned, steps >>

stampVars == << stamps, categories, uuids >>

cacheVars == << _cache, _max_size, qimg >>

tintVars == << item, tint, new_data >>

outVars == << saved, drawn >>

handlerVars == << document, current_page, zoom_level, annotations, undo_stack, redo_stack >>

stateVars == << drag_start_pos, drag_start_rect, resize_handle, selected_annotation >>

None == <<>>

NoHandle == "None"

\* `returned` after an event that calls no method that returns a value
NoCall == << "", 0, "None" >>

\* True and False as `returned` holds them
Bool(b) == IF b THEN "True" ELSE "False"

\* ------------------------------------------------------------- QPointF, QRectF

\* QRectF(x, y, w, h)
QRectF(x, y, w, h) == << x, y, w, h >>

RLeft(r) == r[1]

RTop(r) == r[2]

RWidth(r) == r[3]

RHeight(r) == r[4]

RRight(r) == r[1] + r[3]

RBottom(r) == r[2] + r[4]

\* QRectF.contains(QPointF): edges included, a rect of no width or no height
\* contains nothing, a negative width or height is normalised
RectContains(r, p) ==
    LET l == IF r[3] < 0 THEN r[1] + r[3] ELSE r[1]
        rr == IF r[3] < 0 THEN r[1] ELSE r[1] + r[3]
        t == IF r[4] < 0 THEN r[2] + r[4] ELSE r[2]
        b == IF r[4] < 0 THEN r[2] ELSE r[2] + r[4]
    IN  /\ l # rr
        /\ t # b
        /\ l <= p[1] /\ p[1] <= rr
        /\ t <= p[2] /\ p[2] <= b

\* bool(QPointF) is not isNull(); bool(None) is False
PosTruthy(p) == p # None /\ ~(p[1] = 0 /\ p[2] = 0)

\* bool(QRectF) is isValid(); bool(None) is False
RectTruthy(r) == r # None /\ r[3] > 0 /\ r[4] > 0

\* Annotation is a dataclass: == compares field by field
AnnEq(a, b) == IF a = 0 \/ b = 0 THEN a = b ELSE heap[a] = heap[b]

\* ------------------------------------------------------------- AnnotationManager

RECURSIVE ScanReversed(_, _, _, _)
ScanReversed(list, i, pos, page) ==
    IF i = 0 THEN 0
    ELSE LET a == heap[list[i]]
             rect == QRectF(a.rect[1], a.rect[2], a.rect[3], a.rect[4])
         IN  IF a.page = page /\ RectContains(rect, pos)
             THEN list[i]
             ELSE ScanReversed(list, i - 1, pos, page)

\* Faulty variant of get_annotation_at_position: the list is scanned oldest first.
RECURSIVE ScanForward(_, _, _, _)
ScanForward(list, i, pos, page) ==
    IF i > Len(list) THEN 0
    ELSE LET a == heap[list[i]]
             rect == QRectF(a.rect[1], a.rect[2], a.rect[3], a.rect[4])
         IN  IF a.page = page /\ RectContains(rect, pos)
             THEN list[i]
             ELSE ScanForward(list, i + 1, pos, page)

get_annotation_at_position_OldestFirst(pos, page) ==
    ScanForward(view_annotations, 1, pos, page)

get_annotation_at_position(pos, page) ==
    ScanReversed(view_annotations, Len(view_annotations), pos, page)

\* ------------------------------------------------------------- PDFHandler

\* len(self.document)
len(doc) == IF doc = "one-page.pdf" THEN 1 ELSE 2

\* Faulty variant of open_document: the page index of the previous document is kept.
open_document_KeepsPage(path) ==
    IF path \in Documents
    THEN /\ document' = path
         /\ current_page' = current_page
         /\ zoom_level' = DEFAULT_ZOOM
         /\ annotations' = << >>
         /\ undo_stack' = << >>
         /\ redo_stack' = << >>
    ELSE UNCHANGED handlerVars

\* Faulty variant of open_document: the session is reset before the file is read
open_document_ResetsFirst(path) ==
    /\ document' = IF path \in Documents THEN path ELSE "None"
    /\ current_page' = 0
    /\ zoom_level' = DEFAULT_ZOOM
    /\ annotations' = << >>
    /\ undo_stack' = << >>
    /\ redo_stack' = << >>

open_document(path) ==
    IF path \in Documents
    THEN /\ document' = path
         /\ current_page' = 0
         /\ zoom_level' = DEFAULT_ZOOM
         /\ annotations' = << >>
         /\ undo_stack' = << >>
         /\ redo_stack' = << >>
    ELSE UNCHANGED handlerVars

navigate_to_page(page_number) ==
    IF document # "None" /\ 0 <= page_number /\ page_number < len(document)
    THEN current_page' = page_number
    ELSE current_page' = current_page

\* Faulty variant of set_zoom: the range check is left out.
set_zoom_Unchecked(z) == zoom_level' = z

set_zoom(z) ==
    IF ZoomInRange(z) THEN zoom_level' = z ELSE zoom_level' = zoom_level

\* add_annotation with the document open, and PDFView.on_annotation_added,
\* the slot of annotation_added
add_annotation(id) ==
    /\ undo_stack' = Append(undo_stack, [type |-> "add_annotation", annotation |-> id,
                                         annotation_id |-> 0])
    /\ redo_stack' = << >>
    /\ annotations' = Append(annotations, id)
    /\ view_annotations' = Append(view_annotations, id)

\* list.pop(i) for a 1-based position i of the list
RemoveAt(list, i) == SubSeq(list, 1, i - 1) \o SubSeq(list, i + 1, Len(list))

\* list.index(x) + 1: the first position holding an Annotation equal to heap[id]
\* (dataclass ==), 0 where list.index raises ValueError
IndexOf(list, id) ==
    IF \E i \in DOMAIN list : heap[list[i]] = heap[id]
    THEN CHOOSE i \in DOMAIN list :
             /\ heap[list[i]] = heap[id]
             /\ \A j \in 1..(i - 1) : heap[list[j]] # heap[id]
    ELSE 0

\* AnnotationManager.remove_annotation: list.remove(x) takes out the first element
\* equal to x; the ValueError of a list without one is caught
ManagerRemove(list, id) ==
    IF IndexOf(list, id) = 0 THEN list ELSE RemoveAt(list, IndexOf(list, id))

\* PDFView.on_annotation_removed, the slot of annotation_removed(index)
on_annotation_removed(list, index) ==
    IF 0 <= index /\ index < Len(list) THEN ManagerRemove(list, list[index + 1]) ELSE list

\* PDFHandler.remove_annotation would return True
RemoveAccepted(annotation_id) == 0 <= annotation_id /\ annotation_id < Len(annotations)

\* the viewport's list after PDFHandler.remove_annotation(annotation_id): the slot
\* runs when the signal is emitted, that is when the removal is accepted
ViewAfterRemove(annotation_id) ==
    IF RemoveAccepted(annotation_id)
    THEN on_annotation_removed(view_annotations, annotation_id)
    ELSE view_annotations

\* Faulty variant of remove_annotation_on: a negative index counts from the end, as
\* list.pop takes it.
remove_annotation_on_NegativeIndex(u, r, annotation_id) ==
    IF -Len(annotations) <= annotation_id /\ annotation_id < Len(annotations)
    THEN LET i == IF annotation_id < 0 THEN Len(annotations) + annotation_id + 1
                  ELSE annotation_id + 1
         IN  /\ undo_stack' = Append(u, [type |-> "remove_annotation",
                                          annotation |-> annotations[i],
                                          annotation_id |-> annotation_id])
             /\ redo_stack' = << >>
             /\ annotations' = RemoveAt(annotations, i)
    ELSE /\ undo_stack' = u
         /\ redo_stack' = r
         /\ UNCHANGED annotations

\* PDFHandler.remove_annotation(annotation_id) on the stacks u and r (those of the
\* handler, or what undo and redo left of them)
remove_annotation_on(u, r, annotation_id) ==
    IF RemoveAccepted(annotation_id)
    THEN /\ undo_stack' = Append(u, [type |-> "remove_annotation",
                                      annotation |-> annotations[annotation_id + 1],
                                      annotation_id |-> annotation_id])
         /\ redo_stack' = << >>
         /\ annotations' = RemoveAt(annotations, annotation_id + 1)
    ELSE /\ undo_stack' = u
         /\ redo_stack' = r
         /\ UNCHANGED annotations

\* PDFHandler.remove_annotation(annotation_id) with the slot of its signal
remove_annotation(annotation_id) ==
    /\ remove_annotation_on(undo_stack, redo_stack, annotation_id)
    /\ view_annotations' = ViewAfterRemove(annotation_id)

\* PDFHandler.add_annotation(annotation) and the slot of its signal, on the stacks
\* u and r
add_annotation_on(u, r, id) ==
    IF document = "None"
    THEN /\ undo_stack' = u
         /\ redo_stack' = r
         /\ UNCHANGED << annotations, view_annotations >>
    ELSE /\ undo_stack' = Append(u, [type |-> "add_annotation", annotation |-> id,
                                      annotation_id |-> 0])
         /\ redo_stack' = << >>
         /\ annotations' = Append(annotations, id)
         /\ view_annotations' = Append(view_annotations, id)

\* PDFHandler.undo; annotations.index raises ValueError, after the action has
\* moved to the redo stack, when the annotation is no longer in the list
undo ==
    IF undo_stack = << >>
    THEN UNCHANGED << undo_stack, redo_stack, annotations, view_annotations >>
    ELSE LET action == undo_stack[Len(undo_stack)]
             u == SubSeq(undo_stack, 1, Len(undo_stack) - 1)
             r == Append(redo_stack, action)
         IN  IF action.type = "add_annotation"
             THEN IF IndexOf(annotations, action.annotation) = 0
                  THEN /\ undo_stack' = u
                       /\ redo_stack' = r
                       /\ UNCHANGED << annotations, view_annotations >>
                  ELSE /\ remove_annotation_on(u, r, IndexOf(annotations, action.annotation) - 1)
                       /\ view_annotations' =
                              ViewAfterRemove(IndexOf(annotations, action.annotation) - 1)
             ELSE add_annotation_on(u, r, action.annotation)

\* PDFHandler.redo
redo ==
    IF redo_stack = << >>
    THEN UNCHANGED << undo_stack, redo_stack, annotations, view_annotations >>
    ELSE LET action == redo_stack[Len(redo_stack)]
             r == SubSeq(redo_stack, 1, Len(redo_stack) - 1)
             u == Append(undo_stack, action)
         IN  IF action.type = "add_annotation"
             THEN add_annotation_on(u, r, action.annotation)
             ELSE IF IndexOf(annotations, action.annotation) = 0
                  THEN /\ undo_stack' = u
                       /\ redo_stack' = r
                       /\ UNCHANGED << annotations, view_annotations >>
                  ELSE /\ remove_annotation_on(u, r, IndexOf(annotations, action.annotation) - 1)
                       /\ view_annotations' =
                              ViewAfterRemove(IndexOf(annotations, action.annotation) - 1)

\* the paths save_document is asked to write: one it can write and one it cannot
SavePaths == { "signed.pdf", "/read-only/signed.pdf" }

\* doc_copy.save(path) writes the file and the file verifies as a PDF
Writable(path) == path = "signed.pdf"

\* the bytes save_document writes to the temporary PNG file for an annotation, and
\* whether reading the key raises KeyError
ImageKey(a) == IF a.type = "stamp" THEN "image_data" ELSE "signature_data"

KeyError(a) == ImageKey(a) \notin DOMAIN a.content

\* page.insert_image(rect, filename) raises: the rect is empty or the file is no image
InsertRaises(a) ==
    \/ a.rect[3] <= a.rect[1]
    \/ a.rect[4] <= a.rect[2]
    \/ fromData(a.content[ImageKey(a)]).isNull

\* the pass of save_document's loop for one annotation raises
Raises(a) == a.type \in { "stamp", "signature" } /\ (KeyError(a) \/ InsertRaises(a))

\* Faulty variant of InsertImage: the rect converted to the viewport, as for painting
InsertImage_ViewportRect(a) ==
    << a.page,
       << Mul(a.rect[1], zoom_level), Mul(a.rect[2], zoom_level),
          Mul(a.rect[3], zoom_level), Mul(a.rect[4], zoom_level) >>,
       a.content[ImageKey(a)] >>

\* the insert_image call of one pass: the page of the copy, fitz.Rect(*annotation.rect)
\* and the bytes of the temporary file
InsertImage(a) == << a.page, a.rect, a.content[ImageKey(a)] >>

\* the insert_image calls of the loop over the first i annotations
RECURSIVE InsertedImages(_)
InsertedImages(i) ==
    IF i = 0 THEN << >>
    ELSE LET a == heap[annotations[i]]
         IN  IF a.type \in { "stamp", "signature" }
             THEN Append(InsertedImages(i - 1), InsertImage(a))
             ELSE InsertedImages(i - 1)

\* what save_document(path) returns
SaveResult(path) ==
    /\ document # "None"
    /\ \A i \in DOMAIN annotations : ~Raises(heap[annotations[i]])
    /\ Writable(path)

\* PDFHandler.save_document: works on a copy of the document and assigns to no
\* attribute of the handler; a file exists afterwards only if it returns True
save_document(path) ==
    /\ saved' = IF SaveResult(path) THEN << InsertedImages(Len(annotations)) >> ELSE None
    /\ UNCHANGED handlerVars

\* ------------------------------------------------------------- PDFViewport

ToDocument(pos) == << Div(pos[1], zoom_level), Div(pos[2], zoom_level) >>

\* Faulty variant of _get_viewport_rect: the zoom the viewport was built with
_get_viewport_rect_CachedZoom(doc_coords) ==
    QRectF(Mul(doc_coords[1], DEFAULT_ZOOM), Mul(doc_coords[2], DEFAULT_ZOOM),
           Mul(doc_coords[3] - doc_coords[1], DEFAULT_ZOOM),
           Mul(doc_coords[4] - doc_coords[2], DEFAULT_ZOOM))

_get_viewport_rect(doc_coords) ==
    QRectF(Mul(doc_coords[1], zoom_level), Mul(doc_coords[2], zoom_level),
           Mul(doc_coords[3] - doc_coords[1], zoom_level),
           Mul(doc_coords[4] - doc_coords[2], zoom_level))

HandleRect(corner) ==
    QRectF(corner[1] - Fx(HANDLE_SIZE) \div 2, corner[2] - Fx(HANDLE_SIZE) \div 2,
           Fx(HANDLE_SIZE), Fx(HANDLE_SIZE))

_get_resize_handle(viewport_pos, viewport_rect) ==
    LET tl == << RLeft(viewport_rect), RTop(viewport_rect) >>
        tr == << RRight(viewport_rect), RTop(viewport_rect) >>
        bl == << RLeft(viewport_rect), RBottom(viewport_rect) >>
        br == << RRight(viewport_rect), RBottom(viewport_rect) >>
    IN  IF RectContains(HandleRect(tl), viewport_pos) THEN "top-left"
        ELSE IF RectContains(HandleRect(tr), viewport_pos) THEN "top-right"
        ELSE IF RectContains(HandleRect(bl), viewport_pos) THEN "bottom-left"
        ELSE IF RectContains(HandleRect(br), viewport_pos) THEN "bottom-right"
        ELSE NoHandle

\* the QRectF(left, top, right - left, bottom - top) of an annotation's rect
Snapshot(coords) == QRectF(coords[1], coords[2], coords[3] - coords[1], coords[4] - coords[2])

SetRect(id, rect) == heap' = [heap EXCEPT ![id].rect = rect]

\* Faulty variant of mousePressEvent: the body hit-test comes before the handles.
mousePressEvent_HitTestFirst(pos) ==
    LET handle == IF selected_annotation # 0
                  THEN _get_resize_handle(pos, _get_viewport_rect(heap[selected_annotation].rect))
                  ELSE NoHandle
        clicked == get_annotation_at_position(ToDocument(pos), current_page)
    IN  IF clicked # 0
        THEN /\ selected_annotation' = clicked
             /\ drag_start_pos' = pos
             /\ drag_start_rect' = Snapshot(heap[clicked].rect)
             /\ UNCHANGED resize_handle
        ELSE IF handle # NoHandle
        THEN /\ resize_handle' = handle
             /\ drag_start_pos' = pos
             /\ drag_start_rect' = Snapshot(heap[selected_annotation].rect)
             /\ UNCHANGED selected_annotation
        ELSE /\ selected_annotation' = 0
             /\ UNCHANGED << drag_start_pos, drag_start_rect, resize_handle >>

\* Faulty variant of mousePressEvent: a press that hits nothing keeps the selection.
mousePressEvent_MissKeepsSelection(pos) ==
    LET handle == IF selected_annotation # 0
                  THEN _get_resize_handle(pos, _get_viewport_rect(heap[selected_annotation].rect))
                  ELSE NoHandle
        clicked == get_annotation_at_position(ToDocument(pos), current_page)
    IN  IF handle # NoHandle
        THEN /\ resize_handle' = handle
             /\ drag_start_pos' = pos
             /\ drag_start_rect' = Snapshot(heap[selected_annotation].rect)
             /\ UNCHANGED selected_annotation
        ELSE IF clicked # 0
        THEN /\ selected_annotation' = clicked
             /\ drag_start_pos' = pos
             /\ drag_start_rect' = Snapshot(heap[clicked].rect)
             /\ UNCHANGED resize_handle
        ELSE UNCHANGED << selected_annotation, drag_start_pos, drag_start_rect, resize_handle >>

mousePressEvent(pos) ==
    LET handle == IF selected_annotation # 0
                  THEN _get_resize_handle(pos, _get_viewport_rect(heap[selected_annotation].rect))
                  ELSE NoHandle
        clicked == get_annotation_at_position(ToDocument(pos), current_page)
    IN  IF handle # NoHandle
        THEN /\ resize_handle' = handle
             /\ drag_start_pos' = pos
             /\ drag_start_rect' = Snapshot(heap[selected_annotation].rect)
             /\ UNCHANGED selected_annotation
        ELSE IF clicked # 0
        THEN /\ selected_annotation' = clicked
             /\ drag_start_pos' = pos
             /\ drag_start_rect' = Snapshot(heap[clicked].rect)
             /\ UNCHANGED resize_handle
        ELSE /\ selected_annotation' = 0
             /\ UNCHANGED << drag_start_pos, drag_start_rect, resize_handle >>

_handle_hover(pos) ==
    LET hovered == get_annotation_at_position(ToDocument(pos), current_page)
    IN  IF ~AnnEq(hovered, hovered_annotation)
        THEN hovered_annotation' = hovered
        ELSE UNCHANGED hovered_annotation

\* Faulty variant of ResizedRect: the height is the width times the aspect ratio.
ResizedRect_HeightTimesAspect(pos) ==
    LET doc_delta_x == Div(pos[1] - drag_start_pos[1], zoom_level)
        orig_rect == drag_start_rect
        aspect_ratio == heap[selected_annotation].content.aspect_ratio
        wider == Max(Fx(MIN_SIZE), RWidth(orig_rect) + doc_delta_x)
        narrower == Max(Fx(MIN_SIZE), RWidth(orig_rect) - doc_delta_x)
    IN  IF resize_handle = "bottom-right"
        THEN QRectF(RLeft(orig_rect), RTop(orig_rect), wider, Mul(wider, aspect_ratio))
        ELSE IF resize_handle = "top-left"
        THEN QRectF(RRight(orig_rect) - narrower,
                    RBottom(orig_rect) - Mul(narrower, aspect_ratio),
                    narrower, Mul(narrower, aspect_ratio))
        ELSE IF resize_handle = "bottom-left"
        THEN QRectF(RRight(orig_rect) - narrower, RTop(orig_rect),
                    narrower, Mul(narrower, aspect_ratio))
        ELSE IF resize_handle = "top-right"
        THEN QRectF(RLeft(orig_rect), RBottom(orig_rect) - Mul(wider, aspect_ratio),
                    wider, Mul(wider, aspect_ratio))
        ELSE None

\* Faulty variant of ResizedRect: every handle keeps the top-left corner in place.
ResizedRect_KeepsTopLeft(pos) ==
    LET doc_delta_x == Div(pos[1] - drag_start_pos[1], zoom_level)
        orig_rect == drag_start_rect
        aspect_ratio == heap[selected_annotation].content.aspect_ratio
        wider == Max(Fx(MIN_SIZE), RWidth(orig_rect) + doc_delta_x)
        narrower == Max(Fx(MIN_SIZE), RWidth(orig_rect) - doc_delta_x)
    IN  IF resize_handle \in {"bottom-right", "top-right"}
        THEN QRectF(RLeft(orig_rect), RTop(orig_rect), wider, Div(wider, aspect_ratio))
        ELSE IF resize_handle \in {"top-left", "bottom-left"}
        THEN QRectF(RLeft(orig_rect), RTop(orig_rect), narrower, Div(narrower, aspect_ratio))
        ELSE None

\* Faulty variant of ResizedRect: the width follows the vertical delta.
ResizedRect_UsesDeltaY(pos) ==
    LET doc_delta_y == Div(pos[2] - drag_start_pos[2], zoom_level)
        orig_rect == drag_start_rect
        aspect_ratio == heap[selected_annotation].content.aspect_ratio
        wider == Max(Fx(MIN_SIZE), RWidth(orig_rect) + doc_delta_y)
        narrower == Max(Fx(MIN_SIZE), RWidth(orig_rect) - doc_delta_y)
    IN  IF resize_handle = "bottom-right"
        THEN QRectF(RLeft(orig_rect), RTop(orig_rect), wider, Div(wider, aspect_ratio))
        ELSE IF resize_handle = "top-left"
        THEN QRectF(RRight(orig_rect) - narrower,
                    RBottom(orig_rect) - Div(narrower, aspect_ratio),
                    narrower, Div(narrower, aspect_ratio))
        ELSE IF resize_handle = "bottom-left"
        THEN QRectF(RRight(orig_rect) - narrower, RTop(orig_rect),
                    narrower, Div(narrower, aspect_ratio))
        ELSE IF resize_handle = "top-right"
        THEN QRectF(RLeft(orig_rect), RBottom(orig_rect) - Div(wider, aspect_ratio),
                    wider, Div(wider, aspect_ratio))
        ELSE None

\* the QRectF a resize to `pos` computes, None for no handle
ResizedRect(pos) ==
    LET doc_delta_x == Div(pos[1] - drag_start_pos[1], zoom_level)
        orig_rect == drag_start_rect
        orig_width == RWidth(orig_rect)
        aspect_ratio == heap[selected_annotation].content.aspect_ratio
        wider == Max(Fx(MIN_SIZE), orig_width + doc_delta_x)
        narrower == Max(Fx(MIN_SIZE), orig_width - doc_delta_x)
    IN  IF resize_handle = "bottom-right"
        THEN QRectF(RLeft(orig_rect), RTop(orig_rect), wider, Div(wider, aspect_ratio))
        ELSE IF resize_handle = "top-left"
        THEN QRectF(RRight(orig_rect) - narrower,
                    RBottom(orig_rect) - Div(narrower, aspect_ratio),
                    narrower, Div(narrower, aspect_ratio))
        ELSE IF resize_handle = "bottom-left"
        THEN QRectF(RRight(orig_rect) - narrower, RTop(orig_rect),
                    narrower, Div(narrower, aspect_ratio))
        ELSE IF resize_handle = "top-right"
        THEN QRectF(RLeft(orig_rect), RBottom(orig_rect) - Div(wider, aspect_ratio),
                    wider, Div(wider, aspect_ratio))
        ELSE None

\* Faulty variant of _handle_resize: the minimum-size check is left out.
_handle_resize_NoMinimum(pos) ==
    IF ~PosTruthy(drag_start_pos) \/ ~RectTruthy(drag_start_rect) \/ selected_annotation = 0
    THEN UNCHANGED heap
    ELSE LET new_rect == ResizedRect(pos)
         IN  IF new_rect # None
             THEN SetRect(selected_annotation,
                          << RLeft(new_rect), RTop(new_rect), RRight(new_rect), RBottom(new_rect) >>)
             ELSE UNCHANGED heap

\* Faulty variant of _handle_resize: a rect below the minimum is replaced by the
\* smallest allowed square at the snapshot's top-left instead of being rejected.
_handle_resize_ClampsToMinimum(pos) ==
    IF ~PosTruthy(drag_start_pos) \/ ~RectTruthy(drag_start_rect) \/ selected_annotation = 0
    THEN UNCHANGED heap
    ELSE LET new_rect == ResizedRect(pos)
             min_size == Div(Fx(MIN_SIZE), zoom_level)
         IN  IF new_rect # None /\ RWidth(new_rect) >= min_size /\ RHeight(new_rect) >= min_size
             THEN SetRect(selected_annotation,
                          << RLeft(new_rect), RTop(new_rect), RRight(new_rect), RBottom(new_rect) >>)
             ELSE SetRect(selected_annotation,
                          << RLeft(drag_start_rect), RTop(drag_start_rect),
                             RLeft(drag_start_rect) + min_size,
                             RTop(drag_start_rect) + min_size >>)

_handle_resize(pos) ==
    IF ~PosTruthy(drag_start_pos) \/ ~RectTruthy(drag_start_rect) \/ selected_annotation = 0
    THEN UNCHANGED heap
    ELSE LET new_rect == ResizedRect(pos)
             min_size == Div(Fx(MIN_SIZE), zoom_level)
         IN  IF new_rect # None /\ RWidth(new_rect) >= min_size /\ RHeight(new_rect) >= min_size
             THEN SetRect(selected_annotation,
                          << RLeft(new_rect), RTop(new_rect), RRight(new_rect), RBottom(new_rect) >>)
             ELSE UNCHANGED heap

\* Faulty variant of _handle_move: right and bottom are not translated.
_handle_move_KeepsRightBottom(pos) ==
    IF ~PosTruthy(drag_start_pos) \/ ~RectTruthy(drag_start_rect) \/ selected_annotation = 0
    THEN UNCHANGED heap
    ELSE LET doc_delta_x == Div(pos[1] - drag_start_pos[1], zoom_level)
             doc_delta_y == Div(pos[2] - drag_start_pos[2], zoom_level)
             orig_rect == drag_start_rect
         IN  SetRect(selected_annotation,
                     << RLeft(orig_rect) + doc_delta_x, RTop(orig_rect) + doc_delta_y,
                        RRight(orig_rect), RBottom(orig_rect) >>)

_handle_move(pos) ==
    IF ~PosTruthy(drag_start_pos) \/ ~RectTruthy(drag_start_rect) \/ selected_annotation = 0
    THEN UNCHANGED heap
    ELSE LET doc_delta_x == Div(pos[1] - drag_start_pos[1], zoom_level)
             doc_delta_y == Div(pos[2] - drag_start_pos[2], zoom_level)
             orig_rect == drag_start_rect
             new_rect == QRectF(RLeft(orig_rect) + doc_delta_x, RTop(orig_rect) + doc_delta_y,
                                RWidth(orig_rect), RHeight(orig_rect))
         IN  SetRect(selected_annotation,
                     << RLeft(new_rect), RTop(new_rect),
                        RLeft(new_rect) + RWidth(orig_rect),
                        RTop(new_rect) + RHeight(orig_rect) >>)

\* Faulty variant of mouseMoveEvent: the buttons of the event are not looked at
mouseMoveEvent_IgnoresButtons(pos, left) ==
    /\ _handle_hover(pos)
    /\ IF PosTruthy(drag_start_pos) /\ selected_annotation # 0
       THEN IF resize_handle # NoHandle THEN _handle_resize(pos) ELSE _handle_move(pos)
       ELSE UNCHANGED heap

mouseMoveEvent(pos, left) ==
    /\ _handle_hover(pos)
    /\ IF left /\ PosTruthy(drag_start_pos) /\ selected_annotation # 0
       THEN IF resize_handle # NoHandle THEN _handle_resize(pos) ELSE _handle_move(pos)
       ELSE UNCHANGED heap

\* Faulty variant of mouseReleaseEvent: the release also deselects.
mouseReleaseEvent_Deselects ==
    /\ drag_start_pos' = None
    /\ drag_start_rect' = None
    /\ resize_handle' = NoHandle
    /\ selected_annotation' = 0

mouseReleaseEvent ==
    /\ drag_start_pos' = None
    /\ drag_start_rect' = None
    /\ resize_handle' = NoHandle
    /\ UNCHANGED selected_annotation

\* Faulty variant of DroppedAnnotation: without metadata the ratio is taken as 1.0
DroppedAnnotation_DefaultRatio(stamp, pos, has_metadata) ==
    LET original_width == IF has_metadata THEN Fx(stamp.original_width)
                          ELSE Fx(stamp.image_width)
        original_height == IF has_metadata THEN Fx(stamp.original_height)
                           ELSE Fx(stamp.image_height)
        aspect_ratio == IF has_metadata THEN stamp.aspect_ratio ELSE Fx(1)
        doc_x == Div(pos[1], zoom_level)
        doc_y == Div(pos[2], zoom_level)
        scale_factor == Div(Fx(target_width), original_width)
        doc_width == Div(Mul(original_width, scale_factor), zoom_level)
        doc_height == Div(Mul(original_height, scale_factor), zoom_level)
    IN  [type |-> "stamp",
         rect |-> << doc_x, doc_y, doc_x + doc_width, doc_y + doc_height >>,
         content |-> [image_data |-> stamp.image_data, name |-> stamp.name,
                      aspect_ratio |-> aspect_ratio, original_width |-> original_width,
                      original_height |-> original_height, scale_factor |-> scale_factor,
                      color |-> IF has_metadata THEN stamp.color ELSE "#000000"],
         page |-> current_page]

\* the Annotation dropEvent builds from an application/x-stamp payload
DroppedAnnotation(stamp, pos, has_metadata) ==
    LET original_width == IF has_metadata THEN Fx(stamp.original_width)
                          ELSE Fx(stamp.image_width)
        original_height == IF has_metadata THEN Fx(stamp.original_height)
                           ELSE Fx(stamp.image_height)
        aspect_ratio == IF has_metadata THEN stamp.aspect_ratio
                        ELSE Div(original_width, original_height)
        doc_x == Div(pos[1], zoom_level)
        doc_y == Div(pos[2], zoom_level)
        scale_factor == Div(Fx(target_width), original_width)
        doc_width == Div(Mul(original_width, scale_factor), zoom_level)
        doc_height == Div(Mul(original_height, scale_factor), zoom_level)
    IN  [type |-> "stamp",
         rect |-> << doc_x, doc_y, doc_x + doc_width, doc_y + doc_height >>,
         content |-> [image_data |-> stamp.image_data, name |-> stamp.name,
                      aspect_ratio |-> aspect_ratio, original_width |-> original_width,
                      original_height |-> original_height, scale_factor |-> scale_factor,
                      color |-> IF has_metadata THEN stamp.color ELSE "#000000"],
         page |-> current_page]

dropEvent(stamp, pos, has_metadata) ==
    IF document = "None"
    THEN UNCHANGED << heap, annotations, undo_stack, redo_stack, view_annotations >>
    ELSE /\ heap' = Append(heap, DroppedAnnotation(stamp, pos, has_metadata))
         /\ add_annotation(Len(heap) + 1)

\* `if metadata_data:` of the drop handlers
HasMetadata(payload) == payload.metadata_data # ""

\* what the handlers read from a payload: metadata.get with its defaults, and the
\* size of the decoded image
Read(payload) ==
    LET metadata == IF IsDict(payload.metadata_data)
                    THEN json_loads(payload.metadata_data) ELSE << >>
        img == fromData(payload.data)
    IN  [image_data |-> payload.data, name |-> payload.text,
         image_width |-> img.width, image_height |-> img.height,
         original_width |-> get(metadata, "original_width", 100),
         original_height |-> get(metadata, "original_height", 100),
         aspect_ratio |-> get(metadata, "aspect_ratio", Fx(1)),
         color |-> get(metadata, "color", "#000000")]

\* the handlers' try block raises: json.loads does, a list has no get, or
\* target_width / original_width divides by zero
DropRaises(payload) ==
    IF HasMetadata(payload)
    THEN \/ JSONDecodeError(payload.metadata_data)
         \/ ~IsDict(payload.metadata_data)
         \/ Read(payload).original_width = 0
    ELSE Read(payload).image_width = 0 \/ Read(payload).image_height = 0

\* the handlers call event.ignore() and build no annotation
Ignored(payload) ==
    \/ document = "None"
    \/ payload.data = ""
    \/ (~HasMetadata(payload) /\ fromData(payload.data).isNull)
    \/ DropRaises(payload)

\* PDFViewport.dropEvent for any application/x-stamp payload
StampDrop(payload, pos) ==
    IF Ignored(payload)
    THEN UNCHANGED << heap, annotations, undo_stack, redo_stack, view_annotations >>
    ELSE dropEvent(Read(payload), pos, HasMetadata(payload))

\* the viewer's PDFViewport._handle_stamp_drop: the same steps in one try block
_handle_stamp_drop(payload, pos) ==
    IF Ignored(payload)
    THEN UNCHANGED << heap, annotations, undo_stack, redo_stack, view_annotations >>
    ELSE /\ heap' = Append(heap, DroppedAnnotation(Read(payload), pos, HasMetadata(payload)))
         /\ add_annotation(Len(heap) + 1)

\* the Annotation the viewer's _handle_signature_drop builds
SignatureAnnotation(payload, pos) ==
    LET a == DroppedAnnotation(Read(payload), pos, HasMetadata(payload))
    IN  [type |-> "signature",
         rect |-> a.rect,
         content |-> [image_data |-> a.content.image_data, name |-> a.content.name,
                      aspect_ratio |-> a.content.aspect_ratio,
                      original_width |-> a.content.original_width,
                      original_height |-> a.content.original_height,
                      scale_factor |-> a.content.scale_factor],
         page |-> a.page]

\* the viewer's PDFViewport._handle_signature_drop
_handle_signature_drop(payload, pos) ==
    IF Ignored(payload)
    THEN UNCHANGED << heap, annotations, undo_stack, redo_stack, view_annotations >>
    ELSE /\ heap' = Append(heap, SignatureAnnotation(payload, pos))
         /\ add_annotation(Len(heap) + 1)

\* PDFViewport._remove_annotation, from the context menu's Remove
_remove_annotation(annotation) ==
    LET index == IndexOf(view_annotations, annotation) - 1
    IN  IF index >= 0 /\ RemoveAccepted(index)
        THEN /\ remove_annotation_on(undo_stack, redo_stack, index)
             /\ selected_annotation' = IF AnnEq(annotation, selected_annotation)
                                        THEN 0 ELSE selected_annotation
             /\ view_annotations' = ManagerRemove(ViewAfterRemove(index), annotation)
        ELSE UNCHANGED << undo_stack, redo_stack, annotations, view_annotations,
                          selected_annotation >>

\* ImageCache.clear
clear == _cache' = << >>

\* Faulty variant of _reset_stamp_color: the image cache is left as it is.
_reset_stamp_color_KeepsCache(annotation) ==
    IF heap[annotation].type = "stamp"
    THEN /\ heap' = [heap EXCEPT ![annotation].content.color = "#000000"]
         /\ UNCHANGED _cache
    ELSE UNCHANGED << heap, _cache >>

\* PDFViewport._reset_stamp_color, from the context menu's Reset Color
_reset_stamp_color(annotation) ==
    IF heap[annotation].type = "stamp"
    THEN /\ heap' = [heap EXCEPT ![annotation].content.color = "#000000"]
         /\ clear
    ELSE UNCHANGED << heap, _cache >>

\* the entries of the context menu over the annotation found at pos
MenuEntries(pos) ==
    LET clicked_annotation == get_annotation_at_position(ToDocument(pos), current_page)
    IN  IF clicked_annotation = 0 THEN {}
        ELSE {"Remove"} \cup
             (IF /\ heap[clicked_annotation].type = "stamp"
                 /\ heap[clicked_annotation].content.color # "#000000"
              THEN {"Reset Color"} ELSE {})

\* PDFViewport.contextMenuEvent at pos, the user taking `choice` in the menu
contextMenuEvent(pos, choice) ==
    LET clicked_annotation == get_annotation_at_position(ToDocument(pos), current_page)
    IN  IF choice = "Remove"
        THEN /\ _remove_annotation(clicked_annotation)
             /\ UNCHANGED << heap, _cache >>
        ELSE IF choice = "Reset Color"
        THEN /\ _reset_stamp_color(clicked_annotation)
             /\ UNCHANGED << undo_stack, redo_stack, annotations, view_annotations,
                             selected_annotation >>
        ELSE UNCHANGED << undo_stack, redo_stack, annotations, view_annotations,
                          selected_annotation, heap, _cache >>

\* the call of PDFHandler.remove_annotation a context-menu choice leads to
MenuCall(pos, choice) ==
    LET index == IndexOf(view_annotations,
                         get_annotation_at_position(ToDocument(pos), current_page)) - 1
    IN  IF choice = "Remove" /\ index >= 0
        THEN << "remove_annotation", index, Bool(RemoveAccepted(index)) >>
        ELSE NoCall

\* int(x) of a float x
int(x) == IF x >= 0 THEN x \div Unit ELSE -((-x) \div Unit)

\* the entry of the cache c under cache_key, 0 if there is none
Cached(c, cache_key) ==
    IF \E i \in DOMAIN c : c[i].cache_key = cache_key
    THEN CHOOSE i \in DOMAIN c : c[i].cache_key = cache_key
    ELSE 0

\* Faulty variant of CacheAfterGet: the entry evicted is the one just inserted.
CacheAfterGet_EvictsNewest(c, cache_key, decodes) ==
    IF Cached(c._cache, cache_key) # 0 THEN c
    ELSE IF ~decodes THEN c
    ELSE LET inserted == Append(c._cache, [cache_key |-> cache_key, qimg |-> c.qimg + 1])
         IN  [_cache |-> IF Len(inserted) > _max_size
                         THEN SubSeq(inserted, 1, Len(inserted) - 1)
                         ELSE inserted,
              qimg |-> c.qimg + 1]

\* ImageCache.get_scaled_image on the cache and the count of images c: a hit
\* changes nothing, Image.open raising (~decodes) changes nothing, else the new
\* QImage is stored under the key and, past _max_size, the first entry popped
CacheAfterGet(c, cache_key, decodes) ==
    IF Cached(c._cache, cache_key) # 0 THEN c
    ELSE IF ~decodes THEN c
    ELSE LET inserted == Append(c._cache, [cache_key |-> cache_key, qimg |-> c.qimg + 1])
         IN  [_cache |-> IF Len(inserted) > _max_size THEN Tail(inserted) ELSE inserted,
              qimg |-> c.qimg + 1]

\* what get_scaled_image returns: the cached QImage, the one just built, or the
\* null QImage() (0) of the except branch
ScaledImage(cache_key, decodes) ==
    IF Cached(_cache, cache_key) # 0 THEN _cache[Cached(_cache, cache_key)].qimg
    ELSE IF ~decodes THEN 0
    ELSE qimg + 1

get_scaled_image(image_data, width, height, color, decodes) ==
    LET c == CacheAfterGet([_cache |-> _cache, qimg |-> qimg],
                           << image_data, width, height, color >>, decodes)
    IN  _cache' = c._cache /\ qimg' = c.qimg

\* ---- the tint of get_scaled_image

HexDigits == << "0", "1", "2", "3", "4", "5", "6", "7", "8", "9", "a", "b", "c", "d", "e", "f" >>
UpperHex == << "0", "1", "2", "3", "4", "5", "6", "7", "8", "9", "A", "B", "C", "D", "E", "F" >>

\* str.lower() on one character
lower(ch) ==
    IF \E i \in DOMAIN UpperHex : UpperHex[i] = ch
    THEN HexDigits[CHOOSE i \in DOMAIN UpperHex : UpperHex[i] = ch]
    ELSE ch

\* the value of a hexadecimal digit, -1 where int(.., 16) raises ValueError
HexValue(ch) ==
    IF \E i \in DOMAIN HexDigits : HexDigits[i] = lower(ch)
    THEN (CHOOSE i \in DOMAIN HexDigits : HexDigits[i] = lower(ch)) - 1
    ELSE -1

\* int(color[a:a+2], 16) for the 0-based index a; -1 where it raises
HexByte(color, a) ==
    IF HexValue(color[a + 1]) < 0 \/ HexValue(color[a + 2]) < 0 THEN -1
    ELSE 16 * HexValue(color[a + 1]) + HexValue(color[a + 2])

\* `color and color.lower() != '#000000'`
CustomColor(color) ==
    /\ color # << >>
    /\ [i \in DOMAIN color |-> lower(color[i])] # << "#", "0", "0", "0", "0", "0", "0" >>

\* int(c * (1.0 - darkness * 0.5)) with darkness = 1.0 - sum / (3 * 255): the
\* product is c * (765 + sum) / 1530, truncated
Scaled(c, sum) == (c * (2 * 3 * 255 - (3 * 255 - sum))) \div (2 * 3 * 255)

\* Faulty variant of TintPixel: the colour is scaled by the whole darkness.
TintPixel_FullDarkness(px, r, g, b) ==
    LET alpha == px[4]
        sum == px[1] + px[2] + px[3]
    IN  IF alpha > 0
        THEN IF ~(px[1] > 240 /\ px[2] > 240 /\ px[3] > 240)
             THEN << (r * sum) \div (3 * 255), (g * sum) \div (3 * 255),
                     (b * sum) \div (3 * 255), alpha >>
             ELSE px
        ELSE << 0, 0, 0, 0 >>

\* the body of the pixel loop for one item under the tint (r, g, b)
TintPixel(px, r, g, b) ==
    LET alpha == px[4]
        sum == px[1] + px[2] + px[3]
    IN  IF alpha > 0
        THEN IF ~(px[1] > 240 /\ px[2] > 240 /\ px[3] > 240)
             THEN << Scaled(r, sum), Scaled(g, sum), Scaled(b, sum), alpha >>
             ELSE px
        ELSE << 0, 0, 0, 0 >>

\* the pixel the image holds for px after the tint block of get_scaled_image:
\* no tint for the default colour, none where parsing the colour raises
Tinted(px, color) ==
    IF ~CustomColor(color) THEN px
    ELSE LET r == HexByte(color, 1)
             g == HexByte(color, 3)
             b == HexByte(color, 5)
         IN  IF r < 0 \/ g < 0 \/ b < 0 THEN px
             ELSE TintPixel(px, r, g, b)

\* the cache key _render_annotation asks for
RenderKey(id) ==
    LET viewport_rect == _get_viewport_rect(heap[id].rect)
    IN  << heap[id].content.image_data,
           Max(1, int(RWidth(viewport_rect))), Max(1, int(RHeight(viewport_rect))),
           heap[id].content.color >>

\* Image.open(BytesIO(image_data)) and the resize succeed
Decodes(id, width, height) ==
    ~fromData(heap[id].content.image_data).isNull /\ width > 0 /\ height > 0

\* PDFViewport._render_annotations over the first i annotations of the list
RECURSIVE RenderedCache(_)
RenderedCache(i) ==
    IF i = 0 THEN [_cache |-> _cache, qimg |-> qimg]
    ELSE LET id == view_annotations[i]
         IN  IF heap[id].page = current_page /\ heap[id].type = "stamp"
             THEN CacheAfterGet(RenderedCache(i - 1), RenderKey(id),
                                Decodes(id, RenderKey(id)[2], RenderKey(id)[3]))
             ELSE RenderedCache(i - 1)

\* what PDFViewport._render_annotation paints for one annotation: the image unless
\* it is null, then the border and the four handles if the annotation == the
\* selected one; nothing for a type other than "stamp"
_render_annotation(id) ==
    IF heap[id].type # "stamp" THEN << >>
    ELSE (IF Decodes(id, RenderKey(id)[2], RenderKey(id)[3])
          THEN << << "drawImage", id >> >> ELSE << >>)
         \o (IF AnnEq(id, selected_annotation)
             THEN << << "handles", id >> >> ELSE << >>)

\* what _render_annotations paints over the first i annotations of the list
RECURSIVE _render_annotations(_)
_render_annotations(i) ==
    IF i = 0 THEN << >>
    ELSE IF heap[view_annotations[i]].page = current_page
         THEN _render_annotations(i - 1) \o _render_annotation(view_annotations[i])
         ELSE _render_annotations(i - 1)

\* PDFViewport.paintEvent with a page pixmap
paintEvent ==
    LET c == RenderedCache(Len(view_annotations))
    IN  /\ _cache' = c._cache
        /\ qimg' = c.qimg
        /\ drawn' = << _render_annotations(Len(view_annotations)) >>

\* ---- the viewer's PDFRenderer

\* the cache key the renderer asks for: no max(1, ..) and no colour
RendererKey(id) ==
    LET viewport_rect == _get_viewport_rect(heap[id].rect)
    IN  << heap[id].content.image_data,
           int(RWidth(viewport_rect)), int(RHeight(viewport_rect)), "None" >>

\* the cache after PDFRenderer.render_annotations over the first i annotations
RECURSIVE RendererCache(_)
RendererCache(i) ==
    IF i = 0 THEN [_cache |-> _cache, qimg |-> qimg]
    ELSE LET id == view_annotations[i]
         IN  IF heap[id].page = current_page /\ heap[id].type = "stamp"
             THEN CacheAfterGet(RendererCache(i - 1), RendererKey(id),
                                Decodes(id, RendererKey(id)[2], RendererKey(id)[3]))
             ELSE RendererCache(i - 1)

\* what PDFRenderer._render_annotation paints for one annotation: drawImage with
\* whatever get_scaled_image gave, then the handles if is_selected; nothing for a
\* type other than "stamp"
RendererAnnotation(id) ==
    IF heap[id].type # "stamp" THEN << >>
    ELSE << << "drawImage", id >> >>
         \o (IF AnnEq(id, selected_annotation)
             THEN << << "handles", id >> >> ELSE << >>)

\* what PDFRenderer.render_annotations paints over the first i annotations
RECURSIVE render_annotations(_)
render_annotations(i) ==
    IF i = 0 THEN << >>
    ELSE IF heap[view_annotations[i]].page = current_page
         THEN render_annotations(i - 1) \o RendererAnnotation(view_annotations[i])
         ELSE render_annotations(i - 1)

\* the viewer's PDFViewport.paintEvent with a page pixmap
ViewerPaintEvent ==
    LET c == RendererCache(Len(view_annotations))
    IN  /\ _cache' = c._cache
        /\ qimg' = c.qimg
        /\ drawn' = << render_annotations(Len(view_annotations)) >>

\* ------------------------------------------------------------- the state machine

Init ==
    /\ document = "None"
    /\ current_page = 0
    /\ zoom_level = DEFAULT_ZOOM
    /\ annotations = << >>
    /\ undo_stack = << >>
    /\ redo_stack = << >>
    /\ heap = << >>
    /\ view_annotations = << >>
    /\ drag_start_pos = None
    /\ drag_start_rect = None
    /\ resize_handle = NoHandle
    /\ selected_annotation = 0
    /\ hovered_annotation = 0
    /\ leftDown = FALSE
    /\ _cache = << >>
    /\ _max_size = MAX_CACHE_SIZE
    /\ qimg = 0
    /\ item = << 0, 0, 0, 0 >>
    /\ tint = None
    /\ new_data = None
    /\ saved = None
    /\ drawn = None
    /\ stamps = << >>
    /\ categories = [category \in { "General" } |-> << >>]
    /\ uuids = 0
    /\ returned = NoCall
    /\ steps = 0

\* navigate_to_page(page_number) would return True
NavigateAccepted(page_number) ==
    document # "None" /\ 0 <= page_number /\ page_number < len(document)

\* what undo returns: False on an empty stack, "ValueError" where annotations.index
\* raises, else what remove_annotation or add_annotation returns
UndoResult ==
    IF undo_stack = << >> THEN "False"
    ELSE LET action == undo_stack[Len(undo_stack)]
         IN  IF action.type = "add_annotation"
             THEN IF IndexOf(annotations, action.annotation) = 0 THEN "ValueError"
                  ELSE Bool(RemoveAccepted(IndexOf(annotations, action.annotation) - 1))
             ELSE Bool(document # "None")

\* what redo returns
RedoResult ==
    IF redo_stack = << >> THEN "False"
    ELSE LET action == redo_stack[Len(redo_stack)]
         IN  IF action.type = "add_annotation" THEN Bool(document # "None")
             ELSE IF IndexOf(annotations, action.annotation) = 0 THEN "ValueError"
             ELSE Bool(RemoveAccepted(IndexOf(annotations, action.annotation) - 1))

\* one more event of the run
Tick == steps < MaxSteps /\ steps' = steps + 1 /\ UNCHANGED << tintVars, stampVars >>

\* an event that writes no file and paints nothing
Step == Tick /\ saved' = None /\ drawn' = None

OpenDocument ==
    /\ Step
    /\ \E path \in Paths :
           open_document(path) /\ returned' = << "open_document", 0, Bool(path \in Documents) >>
    /\ UNCHANGED << heap, view_annotations, stateVars, hovered_annotation, leftDown >>
    /\ UNCHANGED cacheVars

PreviousPage ==
    /\ Step
    /\ document # "None"
    /\ navigate_to_page(current_page - 1)
    /\ returned' = << "navigate_to_page", current_page - 1,
                    Bool(NavigateAccepted(current_page - 1)) >>
    /\ UNCHANGED << document, zoom_level, annotations, undo_stack, redo_stack, heap,
                    view_annotations, stateVars, hovered_annotation, leftDown >>
    /\ UNCHANGED cacheVars

NextPage ==
    /\ Step
    /\ document # "None"
    /\ navigate_to_page(current_page + 1)
    /\ returned' = << "navigate_to_page", current_page + 1,
                    Bool(NavigateAccepted(current_page + 1)) >>
    /\ UNCHANGED << document, zoom_level, annotations, undo_stack, redo_stack, heap,
                    view_annotations, stateVars, hovered_annotation, leftDown >>
    /\ UNCHANGED cacheVars

SetZoom ==
    /\ Step
    /\ document # "None"
    /\ \E z \in ZoomInputs :
           set_zoom(z) /\ returned' = << "set_zoom", z, Bool(ZoomInRange(z)) >>
    /\ UNCHANGED << document, current_page, annotations, undo_stack, redo_stack, heap,
                    view_annotations, stateVars, hovered_annotation, leftDown >>
    /\ UNCHANGED cacheVars

Drop ==
    /\ Step
    /\ ~leftDown
    /\ Len(heap) < MaxAnnotations
    /\ \E stamp \in Stamps, pos \in DropPoints, has_metadata \in BOOLEAN :
           dropEvent(stamp, pos, has_metadata)
    /\ returned' = << "add_annotation", 0, Bool(document # "None") >>
    /\ UNCHANGED << document, current_page, zoom_level, stateVars, hovered_annotation,
                    leftDown >>
    /\ UNCHANGED cacheVars

MousePress ==
    /\ Step
    /\ returned' = NoCall
    /\ ~leftDown
    /\ \E pos \in Points : mousePressEvent(pos)
    /\ leftDown' = TRUE
    /\ UNCHANGED << handlerVars, heap, view_annotations, hovered_annotation >>
    /\ UNCHANGED cacheVars

MouseMove ==
    /\ Step
    /\ returned' = NoCall
    /\ \E pos \in Points : mouseMoveEvent(pos, leftDown)
    /\ UNCHANGED << handlerVars, view_annotations, stateVars, leftDown >>
    /\ UNCHANGED cacheVars

\* Faulty variant of MouseRelease: the release that ends a drag or a resize is
\* recorded on the undo stack.
MouseRelease_TracksMove ==
    /\ Step
    /\ returned' = NoCall
    /\ leftDown
    /\ mouseReleaseEvent
    /\ leftDown' = FALSE
    /\ undo_stack' = IF selected_annotation # 0 /\ drag_start_rect # None
                      THEN Append(undo_stack, [type |-> "move_annotation",
                                               annotation |-> selected_annotation,
                                               annotation_id |-> 0])
                      ELSE undo_stack
    /\ UNCHANGED << document, current_page, zoom_level, annotations, redo_stack >>
    /\ UNCHANGED << heap, view_annotations, hovered_annotation >>
    /\ UNCHANGED cacheVars

MouseRelease ==
    /\ Step
    /\ returned' = NoCall
    /\ leftDown
    /\ mouseReleaseEvent
    /\ leftDown' = FALSE
    /\ UNCHANGED << handlerVars, heap, view_annotations, hovered_annotation >>
    /\ UNCHANGED cacheVars

\* PDFHandler.remove_annotation called with any index
RemoveAnnotation ==
    /\ Step
    /\ \E annotation_id \in RemoveIds :
           /\ remove_annotation(annotation_id)
           /\ returned' = << "remove_annotation", annotation_id,
                            Bool(RemoveAccepted(annotation_id)) >>
    /\ UNCHANGED << document, current_page, zoom_level, heap, stateVars,
                    hovered_annotation, leftDown, cacheVars >>

Undo ==
    /\ Step
    /\ undo
    /\ returned' = << "undo", 0, UndoResult >>
    /\ UNCHANGED << document, current_page, zoom_level, heap, stateVars,
                    hovered_annotation, leftDown, cacheVars >>

Redo ==
    /\ Step
    /\ redo
    /\ returned' = << "redo", 0, RedoResult >>
    /\ UNCHANGED << document, current_page, zoom_level, heap, stateVars,
                    hovered_annotation, leftDown, cacheVars >>

ContextMenu ==
    /\ Step
    /\ ~leftDown
    /\ \E pos \in MenuPoints :
           \E choice \in MenuEntries(pos) :
               /\ contextMenuEvent(pos, choice)
               /\ returned' = MenuCall(pos, choice)
    /\ UNCHANGED << document, current_page, zoom_level, drag_start_pos, drag_start_rect,
                    resize_handle, hovered_annotation, leftDown, _max_size, qimg >>

\* a drop from a source whose metadata names a tint colour
DropTinted ==
    /\ Step
    /\ ~leftDown
    /\ Len(heap) < MaxAnnotations
    /\ \E stamp \in TintedStamps, pos \in DropPoints : dropEvent(stamp, pos, TRUE)
    /\ returned' = << "add_annotation", 0, Bool(document # "None") >>
    /\ UNCHANGED << document, current_page, zoom_level, stateVars, hovered_annotation,
                    leftDown, cacheVars >>

Paint ==
    /\ Tick
    /\ saved' = None
    /\ returned' = NoCall
    /\ document # "None"
    /\ paintEvent
    /\ UNCHANGED << handlerVars, heap, view_annotations, stateVars, hovered_annotation,
                    leftDown, _max_size >>

Next ==
    \/ OpenDocument
    \/ PreviousPage
    \/ NextPage
    \/ SetZoom
    \/ Drop
    \/ MousePress
    \/ MouseMove
    \/ MouseRelease
    \/ RemoveAnnotation
    \/ Undo
    \/ Redo
    \/ ContextMenu
    \/ DropTinted
    \/ Paint

Spec == Init /\ [][Next]_vars

\* ---- an ImageCache on its own, constructed with any max_size up to MaxCacheSize

InitCache ==
    /\ document = "None"
    /\ current_page = 0
    /\ zoom_level = DEFAULT_ZOOM
    /\ annotations = << >>
    /\ undo_stack = << >>
    /\ redo_stack = << >>
    /\ heap = << >>
    /\ view_annotations = << >>
    /\ drag_start_pos = None
    /\ drag_start_rect = None
    /\ resize_handle = NoHandle
    /\ selected_annotation = 0
    /\ hovered_annotation = 0
    /\ leftDown = FALSE
    /\ _cache = << >>
    /\ _max_size \in 0..MaxCacheSize
    /\ qimg = 0
    /\ item = << 0, 0, 0, 0 >>
    /\ tint = None
    /\ new_data = None
    /\ saved = None
    /\ drawn = None
    /\ stamps = << >>
    /\ categories = [category \in { "General" } |-> << >>]
    /\ uuids = 0
    /\ returned = NoCall
    /\ steps = 0

GetScaledImage ==
    /\ Step
    /\ \E k \in DOMAIN CacheKeys, decodes \in BOOLEAN :
           /\ get_scaled_image(CacheKeys[k][1], CacheKeys[k][2], CacheKeys[k][3],
                               CacheKeys[k][4], decodes)
           /\ returned' = << "get_scaled_image", k, ScaledImage(CacheKeys[k], decodes) >>
    /\ UNCHANGED << handlerVars, heap, view_annotations, stateVars, hovered_annotation,
                    leftDown, _max_size >>

Clear ==
    /\ Step
    /\ clear
    /\ returned' = NoCall
    /\ UNCHANGED << handlerVars, heap, view_annotations, stateVars, hovered_annotation,
                    leftDown, _max_size, qimg >>

NextCache ==
    \/ GetScaledImage
    \/ Clear

SpecCache == InitCache /\ [][NextCache]_vars

\* ---- the tint loop on its own: one pixel of an image under one colour

InitTint ==
    /\ document = "None"
    /\ current_page = 0
    /\ zoom_level = DEFAULT_ZOOM
    /\ annotations = << >>
    /\ undo_stack = << >>
    /\ redo_stack = << >>
    /\ heap = << >>
    /\ view_annotations = << >>
    /\ drag_start_pos = None
    /\ drag_start_rect = None
    /\ resize_handle = NoHandle
    /\ selected_annotation = 0
    /\ hovered_annotation = 0
    /\ leftDown = FALSE
    /\ _cache = << >>
    /\ _max_size = MAX_CACHE_SIZE
    /\ qimg = 0
    /\ item \in Pixels
    /\ tint \in Colors
    /\ new_data = None
    /\ saved = None
    /\ drawn = None
    /\ stamps = << >>
    /\ categories = [category \in { "General" } |-> << >>]
    /\ uuids = 0
    /\ returned = NoCall
    /\ steps = 0

ApplyTint ==
    /\ new_data = None
    /\ new_data' = Tinted(item, tint)
    /\ UNCHANGED << handlerVars, heap, view_annotations, stateVars, hovered_annotation,
                    leftDown, cacheVars, item, tint, outVars, stampVars, returned, steps >>

NextTint == ApplyTint

SpecTint == InitTint /\ [][NextTint]_vars

\* ---- a signing session: drops of any payload on either viewport, then a save

DropStamp ==
    /\ Step
    /\ ~leftDown
    /\ Len(heap) < MaxAnnotations
    /\ \E payload \in Payloads, pos \in DropPoints :
           /\ StampDrop(payload, pos)
           /\ returned' = IF Ignored(payload) THEN NoCall
                          ELSE << "add_annotation", 0, "True" >>
    /\ UNCHANGED << document, current_page, zoom_level, stateVars, hovered_annotation,
                    leftDown, cacheVars >>

ViewerDropStamp ==
    /\ Step
    /\ ~leftDown
    /\ Len(heap) < MaxAnnotations
    /\ \E payload \in Payloads, pos \in DropPoints :
           /\ _handle_stamp_drop(payload, pos)
           /\ returned' = IF Ignored(payload) THEN NoCall
                          ELSE << "add_annotation", 0, "True" >>
    /\ UNCHANGED << document, current_page, zoom_level, stateVars, hovered_annotation,
                    leftDown, cacheVars >>

ViewerDropSignature ==
    /\ Step
    /\ ~leftDown
    /\ Len(heap) < MaxAnnotations
    /\ \E payload \in Payloads, pos \in DropPoints :
           /\ _handle_signature_drop(payload, pos)
           /\ returned' = IF Ignored(payload) THEN NoCall
                          ELSE << "add_annotation", 0, "True" >>
    /\ UNCHANGED << document, current_page, zoom_level, stateVars, hovered_annotation,
                    leftDown, cacheVars >>

SaveDocument ==
    /\ Tick
    /\ drawn' = None
    /\ \E path \in SavePaths :
           /\ save_document(path)
           /\ returned' = << "save_document", path, Bool(SaveResult(path)) >>
    /\ UNCHANGED << heap, view_annotations, stateVars, hovered_annotation, leftDown,
                    cacheVars >>

ViewerPaint ==
    /\ Tick
    /\ saved' = None
    /\ returned' = NoCall
    /\ document # "None"
    /\ ViewerPaintEvent
    /\ UNCHANGED << handlerVars, heap, view_annotations, stateVars, hovered_annotation,
                    leftDown, _max_size >>

NextSave ==
    \/ OpenDocument
    \/ NextPage
    \/ SetZoom
    \/ DropStamp
    \/ ViewerDropStamp
    \/ ViewerDropSignature
    \/ SaveDocument
    \/ ViewerPaint

SpecSave == Init /\ [][NextSave]_vars

\* ---- pointer events where a release can go unseen: a popup that opens while the
\* button is held takes the mouse grab, and the viewport gets no mouseReleaseEvent

ReleaseUnseen ==
    /\ Step
    /\ returned' = NoCall
    /\ leftDown
    /\ leftDown' = FALSE
    /\ UNCHANGED << handlerVars, heap, view_annotations, stateVars, hovered_annotation,
                    cacheVars >>

NextMove ==
    \/ OpenDocument
    \/ SetZoom
    \/ Drop
    \/ MousePress
    \/ MouseMove
    \/ MouseRelease
    \/ ReleaseUnseen

SpecMove == Init /\ [][NextMove]_vars

\* ------------------------------------------------------------- properties

Objects == DOMAIN heap

WidthOf(rect) == rect[3] - rect[1]

HeightOf(rect) == rect[4] - rect[2]

SelectedRect == heap[selected_annotation].rect

\* the interaction states of the viewport
Resizing == resize_handle # NoHandle

Dragging ==
    /\ leftDown
    /\ selected_annotation # 0
    /\ drag_start_rect # None
    /\ resize_handle = NoHandle

Idle == drag_start_pos = None /\ drag_start_rect = None /\ resize_handle = NoHandle

\* every coordinate uses at most two of the four fractional bits, so the next
\* division or multiplication by 2 is exact
GridExact ==
    /\ \A id \in Objects : \A k \in 1..4 : heap[id].rect[k] % (Unit \div 4) = 0
    /\ drag_start_rect # None => \A k \in 1..4 : drag_start_rect[k] % (Unit \div 4) = 0

\* ---- C1

C1_SizeAsAtPress ==
    Dragging => /\ WidthOf(SelectedRect) = RWidth(drag_start_rect)
                /\ HeightOf(SelectedRect) = RHeight(drag_start_rect)

C1_StepKeepsSize ==
    resize_handle = NoHandle =>
        \A id \in Objects :
            /\ WidthOf(heap'[id].rect) = WidthOf(heap[id].rect)
            /\ HeightOf(heap'[id].rect) = HeightOf(heap[id].rect)

C1_OnlyTranslation ==
    resize_handle = NoHandle =>
        \A id \in Objects :
            heap'[id].rect # heap[id].rect =>
                /\ Dragging
                /\ id = selected_annotation
                /\ \E p \in Points :
                       /\ heap'[id].rect[1] =
                              RLeft(drag_start_rect) + Div(p[1] - drag_start_pos[1], zoom_level)
                       /\ heap'[id].rect[2] =
                              RTop(drag_start_rect) + Div(p[2] - drag_start_pos[2], zoom_level)

C1_MoveApplied ==
    \A p \in Points :
        (Dragging /\ PosTruthy(drag_start_pos) /\ mouseMoveEvent(p, leftDown)) =>
            /\ heap'[selected_annotation].rect[1] =
                   RLeft(drag_start_rect) + Div(p[1] - drag_start_pos[1], zoom_level)
            /\ heap'[selected_annotation].rect[2] =
                   RTop(drag_start_rect) + Div(p[2] - drag_start_pos[2], zoom_level)

C2_RatioKept ==
    \A id \in Objects :
        WidthOf(heap[id].rect) * Unit = heap[id].content.aspect_ratio * HeightOf(heap[id].rect)

C2_AspectRatioFixed ==
    \A id \in Objects : heap'[id].content.aspect_ratio = heap[id].content.aspect_ratio

\* C2: in every state, so after every intermediate resize move on any handle,
\* width / height of an annotation's rect equals content.aspect_ratio, and no
\* event (press, move, resize, release) modifies aspect_ratio.
C2_AspectRatioPreserved == []C2_RatioKept /\ [][C2_AspectRatioFixed]_vars

\* a resize has changed the width of the selected annotation
C2_Witness ==
    /\ Resizing
    /\ selected_annotation # 0
    /\ WidthOf(SelectedRect) # RWidth(drag_start_rect)

\* ---- C3

\* width and height are at least 20 / zoom
AboveFloor(rect, zoom) ==
    /\ WidthOf(rect) * zoom >= Fx(MIN_SIZE) * Unit
    /\ HeightOf(rect) * zoom >= Fx(MIN_SIZE) * Unit

C3_Step ==
    ((Resizing \/ resize_handle' # NoHandle) /\ zoom_level' = zoom_level) =>
        \A id \in Objects :
            /\ AboveFloor(heap[id].rect, zoom_level) => AboveFloor(heap'[id].rect, zoom_level)
            /\ heap'[id].rect # heap[id].rect => AboveFloor(heap'[id].rect, zoom_level)

C4_AnchorCornerFixed ==
    (Resizing /\ selected_annotation # 0) =>
        /\ resize_handle = "bottom-right" =>
               /\ SelectedRect[1] = RLeft(drag_start_rect)
               /\ SelectedRect[2] = RTop(drag_start_rect)
        /\ resize_handle = "top-left" =>
               /\ SelectedRect[3] = RRight(drag_start_rect)
               /\ SelectedRect[4] = RBottom(drag_start_rect)
        /\ resize_handle = "bottom-left" =>
               /\ SelectedRect[3] = RRight(drag_start_rect)
               /\ SelectedRect[2] = RTop(drag_start_rect)
        /\ resize_handle = "top-right" =>
               /\ SelectedRect[1] = RLeft(drag_start_rect)
               /\ SelectedRect[4] = RBottom(drag_start_rect)

\* a resize by the bottom-left handle has changed the size
C4_Witness ==
    /\ resize_handle = "bottom-left"
    /\ selected_annotation # 0
    /\ WidthOf(SelectedRect) # RWidth(drag_start_rect)

\* ---- C5

\* the move to p is not clamped and passes the minimum-size check
C5_AtLeastMinimum(p) ==
    LET w == RWidth(drag_start_rect) + Div(p[1] - drag_start_pos[1], zoom_level)
        h == Div(w, heap[selected_annotation].content.aspect_ratio)
    IN  /\ w >= Fx(MIN_SIZE)
        /\ w * zoom_level >= Fx(MIN_SIZE) * Unit
        /\ h * zoom_level >= Fx(MIN_SIZE) * Unit

C5_Step ==
    \A p \in Points :
        ( /\ leftDown
          /\ resize_handle = "bottom-right"
          /\ selected_annotation # 0
          /\ PosTruthy(drag_start_pos)
          /\ mouseMoveEvent(p, leftDown)
          /\ C5_AtLeastMinimum(p) ) =>
            LET w == RWidth(drag_start_rect) + Div(p[1] - drag_start_pos[1], zoom_level)
                h == Div(w, heap[selected_annotation].content.aspect_ratio)
            IN  heap'[selected_annotation].rect =
                    << RLeft(drag_start_rect), RTop(drag_start_rect),
                       RLeft(drag_start_rect) + w, RTop(drag_start_rect) + h >>

C5_Scenario ==
    ( /\ leftDown
      /\ resize_handle = "bottom-right"
      /\ selected_annotation # 0
      /\ SelectedRect = << Fx(10), Fx(10), Fx(110), Fx(60) >>
      /\ heap[selected_annotation].content.aspect_ratio = Fx(2)
      /\ zoom_level = Fx(1)
      /\ drag_start_pos = << Fx(110), Fx(60) >>
      /\ mouseMoveEvent(<< Fx(160), Fx(60) >>, leftDown) ) =>
        heap'[selected_annotation].rect = << Fx(10), Fx(10), Fx(160), Fx(85) >>

\* C5: a move of the bottom-right handle by the viewport delta (dx, dy) at zoom z
\* sets the width to the snapshot width + dx / z when that is at least the
\* minimum, the height to width / aspect_ratio, and keeps (left, top); dy does not
\* enter.  Rect (10,10,110,60), ratio 2, zoom 1, delta (+50, 0) gives width 150,
\* height 75 and top-left (10,10).
C5_BottomRightResize == [][C5_Step /\ C5_Scenario]_vars

\* the scenario's result: width 150, height 75, top-left (10,10)
C5_Witness ==
    /\ leftDown
    /\ resize_handle = "bottom-right"
    /\ selected_annotation # 0
    /\ drag_start_rect = << Fx(10), Fx(10), Fx(100), Fx(50) >>
    /\ drag_start_pos = << Fx(110), Fx(60) >>
    /\ zoom_level = Fx(1)
    /\ SelectedRect = << Fx(10), Fx(10), Fx(160), Fx(85) >>

\* ---- C6

C6_Step ==
    (leftDown /\ ~leftDown') =>
        /\ drag_start_pos' = None
        /\ drag_start_rect' = None
        /\ resize_handle' = NoHandle
        /\ selected_annotation' = selected_annotation
        /\ heap' = heap

\* C6: a left-button release returns the interaction to Idle: drag_start_pos,
\* drag_start_rect and resize_handle are cleared, the selected annotation is the
\* one selected before the release, and no annotation's rect changes.
C6_ReleaseReturnsToIdle == [][C6_Step]_vars

\* after a release that ended a drag: the button is up, the state is Idle and the
\* annotation dragged away from where it was dropped is still selected
C6_Witness ==
    /\ ~leftDown
    /\ Idle
    /\ selected_annotation # 0
    /\ SelectedRect[1] > Fx(20)

\* ---- C7

\* the corners of the selected annotation's rect in viewport space
SelectedCorners ==
    LET r == _get_viewport_rect(SelectedRect)
    IN  [h \in {"top-left", "top-right", "bottom-left", "bottom-right"} |->
            << IF h \in {"top-left", "bottom-left"} THEN RLeft(r) ELSE RRight(r),
               IF h \in {"top-left", "top-right"} THEN RTop(r) ELSE RBottom(r) >>]

\* the handles whose 8 x 8 px square, centred on its corner, holds p
HandlesAt(p) ==
    { h \in DOMAIN SelectedCorners :
        /\ 2 * (p[1] - SelectedCorners[h][1]) <= Fx(HANDLE_SIZE)
        /\ 2 * (SelectedCorners[h][1] - p[1]) <= Fx(HANDLE_SIZE)
        /\ 2 * (p[2] - SelectedCorners[h][2]) <= Fx(HANDLE_SIZE)
        /\ 2 * (SelectedCorners[h][2] - p[2]) <= Fx(HANDLE_SIZE) }

OnHandle(p) == selected_annotation # 0 /\ HandlesAt(p) # {}

C7_Step ==
    \A p \in Points :
        (~leftDown /\ leftDown' /\ mousePressEvent(p) /\ OnHandle(p)) =>
            /\ resize_handle' \in HandlesAt(p)
            /\ drag_start_pos' = p
            /\ drag_start_rect' = Snapshot(SelectedRect)
            /\ selected_annotation' = selected_annotation
            /\ heap' = heap

\* C7: a left press inside one of the four 8 x 8 px handle squares centred on the
\* corners of the selected annotation's viewport rect enters Resizing: the handle
\* name, the press position and the annotation's document-space rect are
\* recorded, the selection is unchanged and no body hit-test is made, so another
\* annotation under the press position is not selected.
C7_PressOnHandleStartsResize == [][C7_Step]_vars

\* a press on a handle of the selected annotation, at a point where the body
\* hit-test finds another annotation
C7_Witness ==
    /\ leftDown
    /\ Resizing
    /\ selected_annotation # 0
    /\ drag_start_rect = Snapshot(SelectedRect)
    /\ get_annotation_at_position(ToDocument(drag_start_pos), current_page)
           \notin {0, selected_annotation}

\* ---- C8

C8_PressStep ==
    \A p \in Points :
        (~leftDown /\ leftDown' /\ mousePressEvent(p) /\ ~OnHandle(p)) =>
            LET clicked == get_annotation_at_position(ToDocument(p), current_page)
            IN  IF clicked # 0
                THEN /\ selected_annotation' = clicked
                     /\ drag_start_rect' = Snapshot(heap[clicked].rect)
                     /\ drag_start_pos' = p
                     /\ resize_handle' = NoHandle
                ELSE /\ selected_annotation' = 0
                     /\ drag_start_pos' = None
                     /\ drag_start_rect' = None
                     /\ resize_handle' = NoHandle

C8_HeldMoveStep ==
    (leftDown /\ selected_annotation = 0) => heap' = heap

Probes == { ToDocument(p) : p \in Points }

\* left <= p.x <= right and top <= p.y <= bottom
Inside(rect, p) ==
    /\ rect[1] <= p[1] /\ p[1] <= rect[3]
    /\ rect[2] <= p[2] /\ p[2] <= rect[4]

\* C9: get_annotation_at_position(p, page) returns an annotation a only if
\* a.page = page and left <= p.x <= right and top <= p.y <= bottom for a.rect;
\* it returns None only if no annotation on that page contains p.
C9_HitTestIsContainment ==
    \A p \in Probes, page \in Pages :
        LET a == get_annotation_at_position(p, page)
        IN  /\ a # 0 => heap[a].page = page /\ Inside(heap[a].rect, p)
            /\ a = 0 => \A i \in DOMAIN view_annotations :
                            ~(/\ heap[view_annotations[i]].page = page
                              /\ Inside(heap[view_annotations[i]].rect, p))

\* ---- C10

\* the test get_annotation_at_position applies to one annotation
Hit(id, pos, page) ==
    /\ heap[id].page = page
    /\ RectContains(QRectF(heap[id].rect[1], heap[id].rect[2],
                           heap[id].rect[3], heap[id].rect[4]), pos)

HitIndexes(pos, page) ==
    { i \in DOMAIN view_annotations : Hit(view_annotations[i], pos, page) }

C10_LatestOfTheHit ==
    \A p \in Probes, page \in Pages :
        HitIndexes(p, page) # {} =>
            \E i \in HitIndexes(p, page) :
                /\ \A j \in HitIndexes(p, page) : j <= i
                /\ get_annotation_at_position(p, page) = view_annotations[i]

C10_AddedLast ==
    Len(view_annotations') > Len(view_annotations) =>
        /\ Len(view_annotations') = Len(view_annotations) + 1
        /\ SubSeq(view_annotations', 1, Len(view_annotations)) = view_annotations

\* C10: when several annotations of a page are hit at a point,
\* get_annotation_at_position returns the one added latest, the highest index of
\* the list; annotations are added at the end of the list, so insertion order is
\* z-order and a newly added annotation is topmost.
C10_LatestAddedIsTopmost == []C10_LatestOfTheHit /\ [][C10_AddedLast]_vars

\* two annotations of the current page overlap at a probe point, both are hit
\* there, and the one added later is returned
C10_Witness ==
    /\ Len(view_annotations) = 2
    /\ \E p \in Probes :
           /\ Inside(heap[view_annotations[1]].rect, p)
           /\ Inside(heap[view_annotations[2]].rect, p)
           /\ HitIndexes(p, current_page) = {1, 2}
           /\ get_annotation_at_position(p, current_page) = view_annotations[2]
           /\ heap[view_annotations[1]].rect # heap[view_annotations[2]].rect

\* ---- C11

\* the annotation a click-selection at v finds: find_at(v / zoom, current page)
ClickTarget(v) == get_annotation_at_position(ToDocument(v), current_page)

\* C11: for every viewport position v, zoom and current page, the annotation
\* recorded as hovered after a move event at v equals the annotation a
\* click-selection at v finds, find_at(v / zoom, current page).
C11_HoverIsClickTarget ==
    [][\A v \in Points :
          (steps' = steps + 1 /\ mouseMoveEvent(v, leftDown)
              /\ UNCHANGED << handlerVars, view_annotations, stateVars, leftDown >>) =>
              (IF ClickTarget(v)' = 0 THEN hovered_annotation' = 0
               ELSE /\ hovered_annotation' # 0
                    /\ heap'[hovered_annotation'] = heap'[ClickTarget(v)'])]_vars

\* a move with the button held has dragged the annotation under a pointer position
\* where the hit-test of that move found nothing
C11_StaleHover ==
    /\ Dragging
    /\ hovered_annotation = 0
    /\ ClickTarget(drag_start_pos) = selected_annotation

\* ---- C12

C12_Step ==
    \A annotation_id \in RemoveIds :
        ( /\ annotation_id < 0 \/ annotation_id >= Len(annotations)
          /\ steps' = steps + 1
          /\ returned'[1] = "remove_annotation"
          /\ returned'[2] = annotation_id ) =>
            /\ returned'[3] = "False"
            /\ annotations' = annotations
            /\ undo_stack' = undo_stack
            /\ redo_stack' = redo_stack
            /\ view_annotations' = view_annotations

\* C12: PDFHandler.remove_annotation(id) with id < 0 or id >= the number of
\* annotations returns False, leaves the annotation list, the undo stack and the
\* redo stack unchanged and emits no annotation_removed (the viewport's list, which
\* the signal's slot edits, is unchanged).
C12_RemoveOutOfRange == [][C12_Step]_vars

\* remove_annotation has just returned False on a store that holds annotations
C12_Witness ==
    /\ returned[1] = "remove_annotation"
    /\ returned[3] = "False"
    /\ annotations # << >>
    /\ undo_stack # << >>
    /\ view_annotations # << >>

\* ---- C13

\* C13: whenever an annotation is removed from the store (context-menu Remove,
\* PDFHandler.remove_annotation, undo of an add, opening another document) a
\* selection that pointed at it is cleared: in every reachable state the selected
\* annotation is None or a member of the viewport's annotation list.
C13_SelectionInView ==
    \/ selected_annotation = 0
    \/ \E i \in 1..Len(view_annotations) :
          AnnEq(view_annotations[i], selected_annotation)

\* ---- C14

\* the rect a resize move to pos computes is below the minimum size of the zoom
C14_BelowMinimum(pos) ==
    LET new_rect == ResizedRect(pos)
        min_size == Div(Fx(MIN_SIZE), zoom_level)
    IN  RWidth(new_rect) < min_size \/ RHeight(new_rect) < min_size

C14_InResize ==
    /\ Resizing
    /\ leftDown
    /\ selected_annotation # 0
    /\ PosTruthy(drag_start_pos)

C14_Step ==
    \A p \in Points :
        (C14_InResize /\ steps' = steps + 1 /\ leftDown' /\ mouseMoveEvent(p, leftDown)) =>
            /\ UNCHANGED << resize_handle, drag_start_pos, drag_start_rect,
                            selected_annotation >>
            /\ IF C14_BelowMinimum(p)
               THEN heap' = heap
               ELSE LET new_rect == ResizedRect(p)
                    IN  heap'[selected_annotation].rect =
                            << RLeft(new_rect), RTop(new_rect),
                               RRight(new_rect), RBottom(new_rect) >>

\* C14: with the button held throughout, a resize move whose rect would have width or height below the minimum is
\* rejected for that frame: every annotation's rect is as before, and the handle,
\* the press position, the rect snapshot and the selection are kept, so the
\* interaction is still Resizing and a move with a valid size is applied.
C14_RejectedResizeKeepsState == [][C14_Step]_vars

\* a resize in progress with an event to come, where one pointer position gives a
\* rect below the minimum and another one a valid rect of a different size
C14_Witness ==
    /\ C14_InResize
    /\ steps < MaxSteps
    /\ \E p \in Points : C14_BelowMinimum(p)
    /\ \E p \in Points :
          /\ ~C14_BelowMinimum(p)
          /\ RWidth(ResizedRect(p)) # WidthOf(SelectedRect)

\* ---- C15

C15_InInterval == 10 * zoom_level >= Unit /\ zoom_level <= 5 * Unit

C15_Step ==
    \A z \in ZoomInputs :
        ( /\ 10 * z < Unit \/ z > 5 * Unit
          /\ steps' = steps + 1
          /\ returned'[1] = "set_zoom"
          /\ returned'[2] = z ) =>
            /\ returned'[3] = "False"
            /\ zoom_level' = zoom_level

\* C15: in every reachable state the zoom factor lies in [0.1, 5.0]; set_zoom with a
\* value outside the interval returns False and leaves the zoom unchanged, so no
\* sequence of zoom requests leaves the interval.
C15_ZoomBounded == []C15_InInterval /\ [][C15_Step]_vars

\* set_zoom has just refused a value while the zoom was not the default any more
C15_Witness ==
    /\ returned[1] = "set_zoom"
    /\ returned[3] = "False"
    /\ zoom_level # DEFAULT_ZOOM

\* ---- C16

C16_PageInDocument ==
    document # "None" => 0 <= current_page /\ current_page < len(document)

C16_Step ==
    \A page_number \in (-1)..Cardinality(Pages) :
        ( /\ page_number < 0 \/ page_number >= len(document)
          /\ steps' = steps + 1
          /\ returned'[1] = "navigate_to_page"
          /\ returned'[2] = page_number ) =>
            /\ returned'[3] = "False"
            /\ current_page' = current_page

\* C16: with a document open, 0 <= current_page < page count after any sequence of
\* open, previous-page and next-page operations; navigate_to_page with an index out
\* of range returns False and leaves current_page unchanged.
C16_PageBounded == []C16_PageInDocument /\ [][C16_Step]_vars

\* a one-page document was opened after the second page of another had been
\* shown, and next-page has just been refused on it
C16_Witness ==
    /\ document = "one-page.pdf"
    /\ returned = << "navigate_to_page", 1, "False" >>
    /\ \E i \in 1..Len(heap) : heap[i].page = 1

\* ---- C17

\* C17: the undo and redo stacks are bounded: len(undo_stack) <= B and
\* len(redo_stack) <= B in every state reachable by add_annotation,
\* remove_annotation, undo and redo, here for B = StackBound.
C17_StacksBounded ==
    /\ Len(undo_stack) <= StackBound
    /\ Len(redo_stack) <= StackBound

\* ---- C18

\* the events that call no method of PDFHandler (press, move, hover, release,
\* repaint, a context menu closed or used for Reset Color), zoom changes and page
\* navigation
C18_Untracked == returned'[1] \in {"", "set_zoom", "navigate_to_page"}

C18_Step ==
    /\ (steps' = steps + 1 /\ C18_Untracked) =>
            UNCHANGED << undo_stack, redo_stack >>
    /\ (steps' = steps + 1 /\ Len(undo_stack') > Len(undo_stack)) =>
            /\ returned'[1] \in {"add_annotation", "remove_annotation", "undo", "redo"}
            /\ undo_stack'[Len(undo_stack')].type \in {"add_annotation", "remove_annotation"}

\* C18: only add and remove are undo-tracked: press, move (drag or resize),
\* release, hover, zoom change and page navigation leave the undo stack and the
\* redo stack unchanged, and a record pushed is an add or a remove record.
C18_OnlyAddRemoveTracked == [][C18_Step]_vars

\* an annotation was added, the zoom changed, the annotation selected, dragged
\* above the page's top edge and released, and the undo stack holds the add only
C18_Witness ==
    /\ Len(undo_stack) = 1
    /\ Len(heap) = 1
    /\ selected_annotation # 0
    /\ ~leftDown
    /\ Idle
    /\ zoom_level # DEFAULT_ZOOM
    /\ SelectedRect[2] < 0

\* ---- C19

\* the entries of a cache, as a set
Entries(c) == { c[i] : i \in DOMAIN c }

C19_AtMostMaxSize == Len(_cache) <= _max_size

C19_Step ==
    (steps' = steps + 1 /\ returned'[1] = "get_scaled_image") =>
        LET cache_key == CacheKeys[returned'[2]]
            hit == Cached(_cache, cache_key)
            new == [cache_key |-> cache_key, qimg |-> qimg + 1]
            all == Entries(_cache) \cup {new}
            evicted == all \ Entries(_cache')
        IN  IF hit # 0
            THEN _cache' = _cache /\ qimg' = qimg /\ returned'[3] = _cache[hit].qimg
            ELSE IF qimg' = qimg
            THEN _cache' = _cache /\ returned'[3] = 0
            ELSE /\ qimg' = qimg + 1
                 /\ returned'[3] = qimg'
                 /\ Entries(_cache') \subseteq all
                 /\ IF Len(_cache) + 1 <= _max_size
                    THEN evicted = {}
                    ELSE /\ Cardinality(evicted) = 1
                         /\ \A e \in evicted : \A other \in all : e.qimg <= other.qimg
                         /\ _max_size >= 1 => new \in Entries(_cache')

C20_ColourChanged ==
    \E id \in DOMAIN heap : heap'[id].content.color # heap[id].content.color

C20_Step ==
    C20_ColourChanged =>
        /\ _cache' = << >>
        /\ \A id \in DOMAIN heap : heap'[id].content.color \in {heap[id].content.color, "#000000"}

\* C20: whenever an annotation's tint colour is changed (_reset_stamp_color) the
\* image cache is empty immediately afterwards: clear() has removed every entry,
\* so no image built before the change is in the cache to be returned.
C20_ColourChangeClearsCache == [][C20_Step]_vars

\* images had been built and cached for a tinted stamp, its colour was reset
\* and the cache is empty
C20_Witness ==
    /\ qimg > 0
    /\ _cache = << >>
    /\ heap # << >>
    /\ \A id \in DOMAIN heap : heap[id].content.color = "#000000"

\* ---- C21

\* the tint (r, g, b) a well-formed colour names
C21_Red(color) == 16 * HexValue(color[2]) + HexValue(color[3])
C21_Green(color) == 16 * HexValue(color[4]) + HexValue(color[5])
C21_Blue(color) == 16 * HexValue(color[6]) + HexValue(color[7])

C21_WellFormed == \A i \in 2..7 : HexValue(tint[i]) >= 0

C21_NonDefault ==
    /\ tint # << >>
    /\ tint \notin { << "#", "0", "0", "0", "0", "0", "0" >> }
    /\ C21_WellFormed

C21_White == item[1] > 240 /\ item[2] > 240 /\ item[3] > 240

\* int(c * (1 - 0.5 * d)) with d = 1 - (R + G + B) / 765
C21_Channel(c) == (c * (765 + item[1] + item[2] + item[3])) \div 1530

C21_Blend ==
    << C21_Channel(C21_Red(tint)), C21_Channel(C21_Green(tint)),
       C21_Channel(C21_Blue(tint)), item[4] >>

C21_Scenario ==
    tint = << "#", "F", "F", "0", "0", "0", "0" >> =>
        /\ item = << 0, 0, 0, 255 >> => new_data = << 127, 0, 0, 255 >>
        /\ item = << 255, 255, 255, 255 >> => new_data = << 255, 255, 255, 255 >>

\* C21 as stated: under a non-default colour every pixel with R, G and B above 240
\* is unchanged, every pixel with alpha 0 keeps alpha 0, every other pixel becomes
\* the blend; #FF0000 takes (0,0,0,255) to (127,0,0,255) and leaves
\* (255,255,255,255); with the colour absent or '#000000' no pixel is recoloured.
C21_TintAsStated ==
    new_data # None =>
        /\ C21_NonDefault =>
              /\ C21_White => new_data = item
              /\ item[4] = 0 => new_data[4] = 0
              /\ (~C21_White /\ item[4] # 0) => new_data = C21_Blend
        /\ (tint = << >> \/ tint = << "#", "0", "0", "0", "0", "0", "0" >>) => new_data = item
        /\ C21_Scenario

\* C21, amended: under a non-default colour every pixel with alpha 0 becomes
\* (0,0,0,0), every pixel with alpha above 0 and R, G and B above 240 is unchanged,
\* every other pixel becomes the blend; the two pixels of the scenario come out as
\* stated; with the colour absent or '#000000' no pixel is recoloured.
C21_TintPerPixel ==
    new_data # None =>
        /\ C21_NonDefault =>
              /\ item[4] = 0 => new_data = << 0, 0, 0, 0 >>
              /\ (item[4] # 0 /\ C21_White) => new_data = item
              /\ (item[4] # 0 /\ ~C21_White) => new_data = C21_Blend
        /\ (tint = << >> \/ tint = << "#", "0", "0", "0", "0", "0", "0" >>) => new_data = item
        /\ C21_Scenario

\* the black opaque pixel under #FF0000 has come out as (127, 0, 0, 255)
C21_Witness ==
    /\ item = << 0, 0, 0, 255 >>
    /\ tint = << "#", "F", "F", "0", "0", "0", "0" >>
    /\ new_data = << 127, 0, 0, 255 >>

\* ---- C22: save_document composites every annotation at its stored rect
\* Whenever save_document writes a file, its insert_image calls are, in the order of
\* the annotation list, one per annotation, on the annotation's own page, at exactly
\* the stored document-space rect and with the annotation's image bytes.  The zoom
\* level does not occur in the placements: sessions whose annotation lists are equal
\* write the same placements whatever their zoom levels are or were.

\* the call save_document owes to the i-th annotation of the list
C22_Stored(i) ==
    LET a == heap[annotations[i]]
    IN  << a.page, a.rect, a.content[ImageKey(a)] >>

C22_Step ==
    (returned'[1] = "save_document" /\ saved' # None)
        => /\ Len(saved'[1]) = Len(annotations)
           /\ \A i \in DOMAIN annotations : saved'[1][i] = C22_Stored(i)

C22_SavedAtStoredRect == [][C22_Step]_vars

\* a file written with an annotation in it whose viewport rect is no longer the
\* 100 pixels wide it was dropped with: the zoom has changed since its rect was fixed
C22_Witness ==
    /\ saved # None
    /\ zoom_level # Unit
    /\ \E i \in DOMAIN annotations :
           /\ saved[1][i] = C22_Stored(i)
           /\ Mul(WidthOf(heap[annotations[i]].rect), zoom_level) # Fx(target_width)

\* ---- C23: save_document flattens every annotation the drop handlers created
\* With a document open and a path that can be written, save_document returns True
\* and the file holds every annotation of the store, each composited once on its
\* page.  Every annotation of a reachable store was created by a drop handler; the
\* statement is taken for the stores in which every annotation has a rect with an
\* area and bytes that decode, where insert_image itself cannot fail.
C23_Insertable(id) ==
    /\ heap[id].rect[3] > heap[id].rect[1]
    /\ heap[id].rect[4] > heap[id].rect[2]
    /\ ~fromData(heap[id].content.image_data).isNull

C23_Step ==
    (/\ returned'[1] = "save_document"
     /\ document # "None"
     /\ Writable(returned'[2])
     /\ \A i \in DOMAIN annotations : C23_Insertable(annotations[i]))
        => /\ returned'[3] = "True"
           /\ Len(saved'[1]) = Len(annotations)
           /\ \A i \in DOMAIN annotations :
                  /\ saved'[1][i][1] = heap[annotations[i]].page
                  /\ saved'[1][i][3] = heap[annotations[i]].content.image_data

C23_SaveFlattensAll == [][C23_Step]_vars

\* ---- C24: a failed open_document or save_document leaves the session as it was
\* A call of open_document or save_document that returns False changes none of
\* document, current_page, zoom_level, the annotation list, the undo stack and the
\* redo stack.
C24_Step ==
    (returned'[1] \in { "open_document", "save_document" } /\ returned'[3] = "False")
        => UNCHANGED handlerVars

C24_FailureKeepsSession == [][C24_Step]_vars

\* an open_document that failed on a session with a document, a page turned, a zoom
\* set and an annotation with its undo entry
C24_Witness ==
    /\ returned = << "open_document", 0, "False" >>
    /\ document # "None"
    /\ current_page # 0
    /\ zoom_level # DEFAULT_ZOOM
    /\ annotations # << >>
    /\ undo_stack # << >>

\* a save_document that failed on such a session
C24_FailedSave ==
    /\ returned[1] = "save_document"
    /\ returned[3] = "False"
    /\ document # "None"
    /\ annotations # << >>

\* ---- C25: a malformed stamp drop, or one without a document, creates nothing
\* A stamp drop whose metadata does not parse as JSON, or whose image bytes do not
\* decode (with or without metadata), or that arrives while no document is open,
\* leaves the annotation lists and the undo stack as they were.
C25_Malformed(payload) ==
    \/ (HasMetadata(payload) /\ JSONDecodeError(payload.metadata_data))
    \/ fromData(payload.data).isNull

C25_Step ==
    \A payload \in Payloads, pos \in DropPoints :
        (/\ C25_Malformed(payload) \/ document = "None"
         /\ StampDrop(payload, pos) \/ _handle_stamp_drop(payload, pos))
            => UNCHANGED << annotations, view_annotations, undo_stack >>

C25_MalformedDropIgnored == [][C25_Step]_vars

\* ---- C26: without metadata the aspect ratio is that of the image
\* A stamp or signature drop that carries image bytes and no metadata blob, and that
\* creates an annotation, gives it the aspect_ratio width / height of the decoded
\* image and an initial rect whose width / height is that same ratio.
C26_Creates(payload, pos) ==
    /\ Len(heap') = Len(heap) + 1
    /\ \/ StampDrop(payload, pos)
       \/ _handle_stamp_drop(payload, pos)
       \/ _handle_signature_drop(payload, pos)

C26_Step ==
    \A payload \in Payloads, pos \in DropPoints :
        (~HasMetadata(payload) /\ C26_Creates(payload, pos))
            => LET a == heap'[Len(heap')]
                   img == fromData(payload.data)
               IN  /\ a.content.aspect_ratio = Div(Fx(img.width), Fx(img.height))
                   /\ Div(WidthOf(a.rect), HeightOf(a.rect)) = a.content.aspect_ratio

C26_RatioOfImage == [][C26_Step]_vars

\* a signature just created from the 100x200 image, which no metadata blob
\* describes, at a zoom other than 1: only a drop without metadata builds it
C26_Witness ==
    /\ returned = << "add_annotation", 0, "True" >>
    /\ zoom_level # Unit
    /\ heap # << >>
    /\ LET a == heap[Len(heap)]
       IN  /\ a.type = "signature"
           /\ a.content.image_data = "tall"
           /\ a.content.original_width = Fx(100)
           /\ a.content.original_height = Fx(200)
           /\ a.content.aspect_ratio = Div(Fx(100), Fx(200))

\* ---- C27: every annotation's rect has right > left and bottom > top
\* In every reachable state every annotation of the store has right > left and
\* bottom > top: after a drop with any metadata the handlers accept, and after any
\* drag, resize, zoom or page change.
C27_RectsValid ==
    \A i \in DOMAIN annotations :
        LET rect == heap[annotations[i]].rect
        IN  rect[3] > rect[1] /\ rect[4] > rect[2]

\* ---- C28: a repaint draws the annotations of the current page, and the handles
\* A repaint with a page bitmap draws every annotation of the viewport's list whose
\* page is the current page, stamp or signature, once and in insertion order, draws
\* none of another page, and draws the border and handles for the selected
\* annotation only.

\* the painter calls owed to the first i annotations of the list
RECURSIVE C28_Owed(_)
C28_Owed(i) ==
    IF i = 0 THEN << >>
    ELSE LET id == view_annotations[i]
         IN  IF heap[id].page # current_page THEN C28_Owed(i - 1)
             ELSE C28_Owed(i - 1) \o << << "drawImage", id >> >>
                  \o (IF id = selected_annotation
                      THEN << << "handles", id >> >> ELSE << >>)

C28_Step == drawn' # None => drawn'[1] = C28_Owed(Len(view_annotations))

C28_PaintDrawsCurrentPage == [][C28_Step]_vars

\* ---- C29: the two conversions are inverses under the session's zoom
\* In every state, converting a stored rect to the viewport and its corners back to
\* the document, each conversion under the zoom the session has at that moment,
\* gives the stored rect again.
C29_RoundTrip(rect) ==
    LET viewport_rect == _get_viewport_rect(rect)
    IN  /\ ToDocument(<< RLeft(viewport_rect), RTop(viewport_rect) >>)
               = << rect[1], rect[2] >>
        /\ ToDocument(<< RRight(viewport_rect), RBottom(viewport_rect) >>)
               = << rect[3], rect[4] >>

C30_Step ==
    (MouseMove /\ ~leftDown)
        => UNCHANGED << heap, selected_annotation, drag_start_pos, drag_start_rect,
                        resize_handle, annotations, view_annotations >>

C30_UnheldMoveOnlyHovers == [][C30_Step]_vars

\* the button is up while the state of a drag is still set, the annotation has
\* been moved by that drag, and a move has since put the hover on it
C30_Witness ==
    /\ ~leftDown
    /\ PosTruthy(drag_start_pos)
    /\ selected_annotation # 0
    /\ hovered_annotation = selected_annotation
    /\ drag_start_rect # None
    /\ LET rect == heap[selected_annotation].rect
       IN  Mul(rect[1], zoom_level) # drag_start_rect[1]

\* ---- C31: the viewport's list and the handler's list hold the same annotations
\* In every reachable state AnnotationManager.annotations and PDFHandler.annotations
\* hold the same annotation objects in the same order.
C31_ListsAgree == view_annotations = annotations

\* ---- C32: a context-menu Remove takes one annotation out of the viewport's list
\* A context-menu Remove that PDFHandler.remove_annotation accepts shortens the
\* viewport's annotation list by exactly one element, also when the list holds
\* another annotation equal to the removed one field by field.
C32_Step ==
    (ContextMenu /\ returned'[1] = "remove_annotation" /\ returned'[3] = "True")
        => Len(view_annotations') = Len(view_annotations) - 1

C32_RemoveTakesOne == [][C32_Step]_vars

\* ---- C33: redo re-applies the action the last undo reverted
\* After an undo that returned True the redo stack is not empty, and a redo that
\* follows it at once returns True and gives the annotation list the elements, in
\* order, it had before the undo.

\* the annotations of a list, field by field
Values(list) == [i \in DOMAIN list |-> heap[list[i]]]

\* list with the annotation id put in at index i (0-based)
InsertAt(list, i, id) == SubSeq(list, 1, i) \o << id >> \o SubSeq(list, i + 1, Len(list))

\* the list before the accepted add or remove that pushed the top undo entry
BeforeLast ==
    LET action == undo_stack[Len(undo_stack)]
    IN  IF action.type = "add_annotation"
        THEN SubSeq(annotations, 1, Len(annotations) - 1)
        ELSE InsertAt(annotations, action.annotation_id, action.annotation)

C33_Step ==
    /\ (returned'[1] = "undo" /\ returned'[3] = "True") => redo_stack' # << >>
    /\ (returned = << "undo", 0, "True" >> /\ returned'[1] = "redo")
           => /\ returned'[3] = "True"
              /\ Values(annotations') = Values(BeforeLast)

C33_RedoRestores == [][C33_Step]_vars

\* ---- C34: every successful undo consumes an entry of the undo stack
\* An undo that returns True leaves the undo stack one entry shorter, so that
\* repeated undo empties the stack and then returns False.
C34_Step ==
    (returned'[1] = "undo" /\ returned'[3] = "True")
        => Len(undo_stack') = Len(undo_stack) - 1

C34_UndoConsumes == [][C34_Step]_vars

\* ---- C35: undo gives back the list as it was before the last add or remove
\* An undo that directly follows an accepted remove_annotation or add_annotation
\* leaves the annotation list equal, element for element and position for position,
\* to the list before that operation.
C35_Step ==
    (/\ returned[1] \in { "add_annotation", "remove_annotation" }
     /\ returned[3] = "True"
     /\ returned'[1] = "undo")
        => Values(annotations') = Values(BeforeLast)

C35_UndoReverses == [][C35_Step]_vars

\* ---- C36: pointer events change only annotations of the page displayed
\* No event changes the rect of an annotation whose page is not the current page,
\* and no press puts such an annotation into a drag or a resize.
C36_Step ==
    /\ \A id \in DOMAIN heap :
           heap[id].page # current_page => heap'[id].rect = heap[id].rect
    /\ (leftDown' /\ ~leftDown /\ selected_annotation' # 0 /\ PosTruthy(drag_start_pos'))
           => heap[selected_annotation'].page = current_page

C36_OnlyCurrentPage == [][C36_Step]_vars

\* ------------------------------------------------------------- ui/pdf_viewer: pointer events

\* the viewer's AnnotationManager.start_drag: QRectF(*rect) takes right and bottom
\* for width and height; resize_handle is left as it is
start_drag(pos, annotation) ==
    /\ drag_start_pos' = pos
    /\ selected_annotation' = annotation
    /\ drag_start_rect' = QRectF(heap[annotation].rect[1], heap[annotation].rect[2],
                                 heap[annotation].rect[3], heap[annotation].rect[4])
    /\ UNCHANGED resize_handle

\* the viewer's AnnotationManager.start_resize
start_resize(pos, annotation, handle) ==
    /\ drag_start_pos' = pos
    /\ selected_annotation' = annotation
    /\ resize_handle' = handle
    /\ drag_start_rect' = QRectF(heap[annotation].rect[1], heap[annotation].rect[2],
                                 heap[annotation].rect[3], heap[annotation].rect[4])

\* the viewer's PDFViewport.mousePressEvent, left button
ViewerMousePressEvent(pos) ==
    LET handle == IF selected_annotation # 0
                  THEN _get_resize_handle(pos, _get_viewport_rect(heap[selected_annotation].rect))
                  ELSE NoHandle
        clicked_annotation == get_annotation_at_position(ToDocument(pos), current_page)
    IN  IF handle # NoHandle
        THEN start_resize(pos, selected_annotation, handle)
        ELSE IF clicked_annotation # 0
        THEN start_drag(pos, clicked_annotation)
        ELSE /\ selected_annotation' = 0
             /\ UNCHANGED << drag_start_pos, drag_start_rect, resize_handle >>

\* the viewer's AnnotationManager.update_hover
update_hover(annotation) ==
    IF ~AnnEq(annotation, hovered_annotation)
    THEN hovered_annotation' = annotation
    ELSE UNCHANGED hovered_annotation

\* the viewer's PDFViewport._handle_drag
_handle_drag(pos) ==
    IF ~PosTruthy(drag_start_pos) \/ ~RectTruthy(drag_start_rect)
    THEN UNCHANGED heap
    ELSE LET doc_delta_x == Div(pos[1] - drag_start_pos[1], zoom_level)
             doc_delta_y == Div(pos[2] - drag_start_pos[2], zoom_level)
             orig_rect == drag_start_rect
             new_rect == QRectF(RLeft(orig_rect) + doc_delta_x, RTop(orig_rect) + doc_delta_y,
                                RWidth(orig_rect), RHeight(orig_rect))
         IN  SetRect(selected_annotation,
                     << RLeft(new_rect), RTop(new_rect), RRight(new_rect), RBottom(new_rect) >>)

\* the new_rect of the viewer's PDFViewport._handle_resize: the width is clamped to
\* MIN_SIZE / zoom_level
ViewerResizedRect(pos) ==
    LET doc_delta_x == Div(pos[1] - drag_start_pos[1], zoom_level)
        orig_rect == drag_start_rect
        orig_width == RWidth(orig_rect)
        aspect_ratio == get(heap[selected_annotation].content, "aspect_ratio", Fx(1))
        wider == Max(Div(Fx(MIN_SIZE), zoom_level), orig_width + doc_delta_x)
        narrower == Max(Div(Fx(MIN_SIZE), zoom_level), orig_width - doc_delta_x)
    IN  IF resize_handle = "bottom-right"
        THEN QRectF(RLeft(orig_rect), RTop(orig_rect), wider, Div(wider, aspect_ratio))
        ELSE IF resize_handle = "top-left"
        THEN QRectF(RRight(orig_rect) - narrower,
                    RBottom(orig_rect) - Div(narrower, aspect_ratio),
                    narrower, Div(narrower, aspect_ratio))
        ELSE IF resize_handle = "bottom-left"
        THEN QRectF(RRight(orig_rect) - narrower, RTop(orig_rect),
                    narrower, Div(narrower, aspect_ratio))
        ELSE IF resize_handle = "top-right"
        THEN QRectF(RLeft(orig_rect), RBottom(orig_rect) - Div(wider, aspect_ratio),
                    wider, Div(wider, aspect_ratio))
        ELSE None

\* the viewer's PDFViewport._handle_resize: no minimum-size test after the clamp
ViewerHandleResize(pos) ==
    IF ~PosTruthy(drag_start_pos) \/ ~RectTruthy(drag_start_rect) \/ selected_annotation = 0
    THEN UNCHANGED heap
    ELSE LET new_rect == ViewerResizedRect(pos)
         IN  IF new_rect # None
             THEN SetRect(selected_annotation,
                          << RLeft(new_rect), RTop(new_rect), RRight(new_rect), RBottom(new_rect) >>)
             ELSE UNCHANGED heap

\* the viewer's PDFViewport.mouseMoveEvent
ViewerMouseMoveEvent(pos, left) ==
    /\ update_hover(get_annotation_at_position(ToDocument(pos), current_page))
    /\ IF left /\ PosTruthy(drag_start_pos) /\ selected_annotation # 0
       THEN IF resize_handle # NoHandle THEN ViewerHandleResize(pos) ELSE _handle_drag(pos)
       ELSE UNCHANGED heap

\* the viewer's PDFViewport.mouseReleaseEvent, left button: AnnotationManager has
\* no clear_drag_state, the call raises AttributeError, which the handler's
\* except clause logs; nothing is cleared
ViewerMouseReleaseEvent ==
    UNCHANGED << drag_start_pos, drag_start_rect, resize_handle, selected_annotation >>

\* a stamp of the gallery is dropped on the viewer
ViewerDrop ==
    /\ Step
    /\ ~leftDown
    /\ Len(heap) < MaxAnnotations
    /\ \E payload \in { q \in Payloads : q.data = "wide" }, pos \in DropPoints :
           /\ _handle_stamp_drop(payload, pos)
           /\ returned' = IF Ignored(payload) THEN NoCall
                          ELSE << "add_annotation", 0, "True" >>
    /\ UNCHANGED << document, current_page, zoom_level, stateVars, hovered_annotation,
                    leftDown, cacheVars >>

ViewerMousePress ==
    /\ Step
    /\ returned' = NoCall
    /\ ~leftDown
    /\ \E pos \in Points : ViewerMousePressEvent(pos)
    /\ leftDown' = TRUE
    /\ UNCHANGED << handlerVars, heap, view_annotations, hovered_annotation, cacheVars >>

ViewerMouseMove ==
    /\ Step
    /\ returned' = NoCall
    /\ \E pos \in Points : ViewerMouseMoveEvent(pos, leftDown)
    /\ UNCHANGED << handlerVars, view_annotations, stateVars, leftDown, cacheVars >>

ViewerMouseRelease ==
    /\ Step
    /\ returned' = NoCall
    /\ leftDown
    /\ ViewerMouseReleaseEvent
    /\ leftDown' = FALSE
    /\ UNCHANGED << handlerVars, heap, view_annotations, hovered_annotation, cacheVars >>

NextViewer ==
    \/ OpenDocument
    \/ SetZoom
    \/ ViewerDrop
    \/ ViewerMousePress
    \/ ViewerMouseMove
    \/ ViewerMouseRelease

SpecViewer == Init /\ [][NextViewer]_vars

\* ---- C37: in the viewer a release clears the drag state and keeps the selection
\* After a left-button release in the viewer, drag_start_pos, drag_start_rect and
\* resize_handle are None and the selected annotation is the one selected before.
C37_Step ==
    ViewerMouseRelease
        => /\ drag_start_pos' = None
           /\ drag_start_rect' = None
           /\ resize_handle' = NoHandle
           /\ selected_annotation' = selected_annotation

C37_ReleaseClears == [][C37_Step]_vars

\* ---- C38: dragging in the viewer keeps the annotation's size
\* A move of the viewer that drags the selected annotation (button down, drag
\* started, no resize handle) leaves right - left and bottom - top of its rect,
\* which has left, top >= 0, as they were.
C38_Step ==
    (/\ ViewerMouseMove
     /\ leftDown /\ PosTruthy(drag_start_pos) /\ selected_annotation # 0
     /\ resize_handle = NoHandle
     /\ heap[selected_annotation].rect[1] >= 0 /\ heap[selected_annotation].rect[2] >= 0)
        => /\ WidthOf(heap'[selected_annotation].rect) = WidthOf(heap[selected_annotation].rect)
           /\ HeightOf(heap'[selected_annotation].rect) = HeightOf(heap[selected_annotation].rect)

C38_DragKeepsSize == [][C38_Step]_vars

\* the rect ui/pdf_view.py leaves after the same press on a handle and the same
\* move: mousePressEvent snapshots QRectF(left, top, right - left, bottom - top),
\* _handle_resize clamps the width to MIN_SIZE and rejects a rect below
\* MIN_SIZE / zoom_level
PdfViewResize(rect, pos) ==
    LET doc_delta_x == Div(pos[1] - drag_start_pos[1], zoom_level)
        orig_rect == Snapshot(rect)
        orig_width == RWidth(orig_rect)
        aspect_ratio == get(heap[selected_annotation].content, "aspect_ratio", Fx(1))
        wider == Max(Fx(MIN_SIZE), orig_width + doc_delta_x)
        narrower == Max(Fx(MIN_SIZE), orig_width - doc_delta_x)
        new_rect ==
            IF resize_handle = "bottom-right"
            THEN QRectF(RLeft(orig_rect), RTop(orig_rect), wider, Div(wider, aspect_ratio))
            ELSE IF resize_handle = "top-left"
            THEN QRectF(RRight(orig_rect) - narrower,
                        RBottom(orig_rect) - Div(narrower, aspect_ratio),
                        narrower, Div(narrower, aspect_ratio))
            ELSE IF resize_handle = "bottom-left"
            THEN QRectF(RRight(orig_rect) - narrower, RTop(orig_rect),
                        narrower, Div(narrower, aspect_ratio))
            ELSE QRectF(RLeft(orig_rect), RBottom(orig_rect) - Div(wider, aspect_ratio),
                        wider, Div(wider, aspect_ratio))
        min_size == Div(Fx(MIN_SIZE), zoom_level)
    IN  IF RWidth(new_rect) >= min_size /\ RHeight(new_rect) >= min_size
        THEN << RLeft(new_rect), RTop(new_rect), RRight(new_rect), RBottom(new_rect) >>
        ELSE rect

\* the selected annotation has not been moved or resized since the press
AsPressed ==
    /\ selected_annotation # 0
    /\ drag_start_rect # None
    /\ heap[selected_annotation].rect =
           << drag_start_rect[1], drag_start_rect[2], drag_start_rect[3], drag_start_rect[4] >>

\* ---- C39: both viewports leave the same rect after a resize
\* The first move after a press on a handle of the selected annotation leaves, in
\* the viewer, the rect that ui/pdf_view.py leaves for the same annotation, zoom,
\* press and move.
C39_Step ==
    (/\ ViewerMouseMove
     /\ leftDown /\ PosTruthy(drag_start_pos) /\ resize_handle # NoHandle
     /\ AsPressed)
        => \A pos \in Points :
               ViewerMouseMoveEvent(pos, leftDown)
                   => heap'[selected_annotation].rect
                          = PdfViewResize(heap[selected_annotation].rect, pos)

C39_SameResize == [][C39_Step]_vars

\* ------------------------------------------------------------- StampManager

\* stamps imported in one run
MaxStamps == 2

\* the category arguments
StampCategories == { "General", "Work", "Home" }

\* the name arguments
StampNames == { "seal", "logo" }

\* the color arguments
StampColors == { "#000000", "#ff0000" }

\* the path arguments: a 200x100 image and a file Image.open raises on
ImagePaths == { "wide.png", "notes.txt" }

\* the stamp_id arguments: ids uuid4 can have generated and one it cannot
StampIdInputs == 1..(MaxStamps + 1)

\* d[k] = v
Put(d, k, v) == [x \in DOMAIN d \cup { k } |-> IF x = k THEN v ELSE d[x]]

\* del d[k]
Del(d, k) == [x \in DOMAIN d \ { k } |-> d[x]]

\* list.index(x) + 1, 0 where list.remove(x) raises ValueError
FirstIndex(list, x) ==
    IF \E i \in DOMAIN list : list[i] = x
    THEN CHOOSE i \in DOMAIN list : list[i] = x /\ \A j \in 1..(i - 1) : list[j] # x
    ELSE 0

\* stamp_id in self.stamps
Known(stamp_id) == stamp_id \in DOMAIN stamps

\* Image.open(path) raises
OpenRaises(path) == path # "wide.png"

\* the categories after import_stamp's add_category call for a new category
EnsureCategory(category) ==
    IF category \in DOMAIN categories THEN categories ELSE Put(categories, category, << >>)

\* StampManager.import_stamp: the category is added and the id generated before
\* the image is opened
import_stamp(path, name, category) ==
    LET stamp_id == uuids + 1
    IN  /\ uuids' = stamp_id
        /\ IF OpenRaises(path)
           THEN /\ categories' = EnsureCategory(category)
                /\ UNCHANGED stamps
                /\ returned' = << "import_stamp", 0, "None" >>
           ELSE /\ stamps' = Put(stamps, stamp_id,
                                 [name |-> name, category |-> category, file |-> stamp_id,
                                  original_width |-> 200, original_height |-> 100,
                                  aspect_ratio |-> Div(Fx(200), Fx(100)),
                                  color |-> "#000000"])
                /\ categories' = [EnsureCategory(category) EXCEPT ![category] = Append(@, stamp_id)]
                /\ returned' = << "import_stamp", 0, stamp_id >>

\* delete_stamp(stamp_id) would return True: the id is known, unlink does not
\* raise, and the list of the stamp's category holds the id
DeleteAccepted(stamp_id, unlink_raises) ==
    /\ Known(stamp_id)
    /\ ~unlink_raises
    /\ stamps[stamp_id].category \in DOMAIN categories
    /\ FirstIndex(categories[stamps[stamp_id].category], stamp_id) # 0

\* StampManager.delete_stamp
delete_stamp(stamp_id, unlink_raises) ==
    /\ returned' = << "delete_stamp", stamp_id, Bool(DeleteAccepted(stamp_id, unlink_raises)) >>
    /\ IF DeleteAccepted(stamp_id, unlink_raises)
       THEN LET category == stamps[stamp_id].category
            IN  /\ categories' = [categories EXCEPT ![category] =
                                      RemoveAt(@, FirstIndex(@, stamp_id))]
                /\ stamps' = Del(stamps, stamp_id)
       ELSE UNCHANGED << stamps, categories >>

\* StampManager.rename_stamp
rename_stamp(stamp_id, new_name) ==
    /\ returned' = << "rename_stamp", stamp_id, Bool(Known(stamp_id)) >>
    /\ IF Known(stamp_id)
       THEN stamps' = [stamps EXCEPT ![stamp_id].name = new_name]
       ELSE UNCHANGED stamps
    /\ UNCHANGED categories

\* StampManager.update_stamp_color
update_stamp_color(stamp_id, color) ==
    /\ returned' = << "update_stamp_color", stamp_id, Bool(Known(stamp_id)) >>
    /\ IF Known(stamp_id)
       THEN stamps' = [stamps EXCEPT ![stamp_id].color = color]
       ELSE UNCHANGED stamps
    /\ UNCHANGED categories

\* StampManager.add_category
add_category(category) ==
    /\ returned' = << "add_category", category, Bool(category \notin DOMAIN categories) >>
    /\ categories' = EnsureCategory(category)
    /\ UNCHANGED stamps

\* Faulty variant of remove_category: the moved stamps keep their category field.
remove_category_KeepsMetadata(category) ==
    IF category \notin DOMAIN categories \/ category = "General"
    THEN /\ returned' = << "remove_category", category, "False" >>
         /\ UNCHANGED << stamps, categories >>
    ELSE LET stamps_to_move == SelectSeq(categories[category], Known)
         IN  /\ returned' = << "remove_category", category, "True" >>
             /\ UNCHANGED stamps
             /\ categories' = Del([categories EXCEPT !["General"] = @ \o stamps_to_move],
                                  category)

\* StampManager.remove_category: the known stamps of the category move to the end
\* of General, in their order
remove_category(category) ==
    IF category \notin DOMAIN categories \/ category = "General"
    THEN /\ returned' = << "remove_category", category, "False" >>
         /\ UNCHANGED << stamps, categories >>
    ELSE LET stamps_to_move == SelectSeq(categories[category], Known)
             moved == { stamps_to_move[i] : i \in DOMAIN stamps_to_move }
         IN  /\ returned' = << "remove_category", category, "True" >>
             /\ stamps' = [x \in DOMAIN stamps |->
                               IF x \in moved THEN [stamps[x] EXCEPT !.category = "General"]
                               ELSE stamps[x]]
             /\ categories' = Del([categories EXCEPT !["General"] = @ \o stamps_to_move],
                                  category)

\* one more call on the StampManager; the viewports are not involved
StampStep ==
    /\ steps < MaxSteps
    /\ steps' = steps + 1
    /\ UNCHANGED << handlerVars, heap, view_annotations, stateVars, hovered_annotation,
                    leftDown, cacheVars, tintVars, outVars >>

ImportStamp ==
    /\ StampStep
    /\ uuids < MaxStamps
    /\ \E path \in ImagePaths, name \in StampNames, category \in StampCategories :
           import_stamp(path, name, category)

DeleteStamp ==
    /\ StampStep
    /\ \E stamp_id \in StampIdInputs, unlink_raises \in BOOLEAN :
           delete_stamp(stamp_id, unlink_raises)
    /\ UNCHANGED uuids

RenameStamp ==
    /\ StampStep
    /\ \E stamp_id \in StampIdInputs, new_name \in StampNames :
           rename_stamp(stamp_id, new_name)
    /\ UNCHANGED uuids

UpdateStampColor ==
    /\ StampStep
    /\ \E stamp_id \in StampIdInputs, color \in StampColors :
           update_stamp_color(stamp_id, color)
    /\ UNCHANGED uuids

AddCategory ==
    /\ StampStep
    /\ \E category \in StampCategories : add_category(category)
    /\ UNCHANGED uuids

RemoveCategory ==
    /\ StampStep
    /\ \E category \in StampCategories : remove_category(category)
    /\ UNCHANGED uuids

NextStamps ==
    \/ ImportStamp
    \/ DeleteStamp
    \/ RenameStamp
    \/ UpdateStampColor
    \/ AddCategory
    \/ RemoveCategory

SpecStamps == Init /\ [][NextStamps]_vars

\* how often x occurs in list
Occurrences(list, x) == Cardinality({ i \in DOMAIN list : list[i] = x })

\* General exists; a stamp's id is once in the list of the category its metadata
\* names and in no other list; the lists hold known ids only
C40_Inv ==
    /\ "General" \in DOMAIN categories
    /\ \A stamp_id \in DOMAIN stamps :
           /\ stamps[stamp_id].category \in DOMAIN categories
           /\ \A category \in DOMAIN categories :
                  Occurrences(categories[category], stamp_id)
                      = IF category = stamps[stamp_id].category THEN 1 ELSE 0
    /\ \A category \in DOMAIN categories :
           \A i \in DOMAIN categories[category] : Known(categories[category][i])

\* rename, delete and update_color on an unknown id return False and change nothing
C40_Unknown ==
    (/\ returned'[1] \in { "rename_stamp", "delete_stamp", "update_stamp_color" }
     /\ ~Known(returned'[2]))
        => /\ returned'[3] = "False"
           /\ UNCHANGED << stamps, categories >>

\* ---- C40: the StampManager's stamps and categories stay consistent
\* After any sequence of import_stamp, delete_stamp, rename_stamp,
\* update_stamp_color, add_category and remove_category: General exists, every
\* stamp id is in exactly the list of the category its metadata names, every id
\* in a list is a known stamp, and rename, delete and update_color on an unknown
\* id return False and leave stamps and categories as they were.
C40_Step == C40_Inv /\ C40_Inv' /\ C40_Unknown

C40_StampsConsistent == [][C40_Step]_vars

\* a stamp imported into Work has moved behind the stamp of General when Work was
\* removed, and a rename of an id never generated has been refused
C40_Witness ==
    /\ DOMAIN categories = { "General" }
    /\ categories["General"] = << 2, 1 >>
    /\ stamps[1].category = "General"
    /\ returned = << "rename_stamp", 3, "False" >>

====
